---- MODULE Spec2Model ----
(***************************************************************************)
(* A model of studio-sanremo: the publishing pipeline                      *)
(* (src/report/pipeline.py), the Reddit megathread fetcher and the         *)
(* per-artist aggregation (src/report/fetch.py).                           *)
(*                                                                         *)
(* Three specifications share the module:                                  *)
(*   SpecPipeline  one run of pipeline.main() or of the fetch.py script    *)
(*   SpecFetch     one call of _fetch_all_megathread_comments              *)
(*   SpecMetrics   one call of _metrics_for_artist                         *)
(* Strings the code inspects character by character are sequences of       *)
(* one-character strings.                                                  *)
(***************************************************************************)
EXTENDS Integers, Sequences, FiniteSets, TLC

VARIABLES
    \* ---- pipeline.main / fetch.py __main__ ----
    entry,            \* which script runs: "pipeline" or "fetch"
    serata,           \* os.getenv("SERATA", ""), a sequence of characters
    urlEnv,           \* os.getenv("MEGATHREAD_URL"): "unset", "valid", "unparsable"
    pc,               \* position of the run
    serata_num,       \* int(serata) once validated, 0 before
    attempt,          \* loop variable of the running retry loop
    data_source_id,   \* "" until create_data_source returned
    report_id,        \* "None" until create_report returned
    failure,          \* what ended the run, "none" while it runs
    exitStatus,       \* process exit status, -1 while it runs
    calls,            \* every external effect so far, in order
    \* ---- fetch._fetch_all_megathread_comments ----
    fpc,              \* "idle", "start", "batches", "done", "raised"
    comments,         \* the corpus: a sequence of [body, score]
    more_ids,         \* continuation ids collected from the initial listing
    bi,               \* the batch loop's index i
    extra_more,       \* the last batch's extra_more list
    post,             \* the returned post: "unset", "empty" ({}) or "post"
    lastCall,         \* the last _reddit_get call: its sleeps and requests, its result
    requested,        \* the batches sent to morechildren so far, in order
    extra_seen,       \* every continuation id found in a morechildren response
    anyFailed,        \* whether some _reddit_get call returned None
    \* ---- fetch._metrics_for_artist ----
    mpc,              \* "idle", "call", "returned"
    artist,           \* the artist name, a sequence of characters
    all_comments,     \* the corpus handed to the function
    metrics,          \* the returned tuple, as a record
    \* ---- fetch.fetch_data, the rows of the CSV ----
    rpc,              \* "idle", "rows", "done", "raised"
    contestants,      \* CONTESTANTS: a sequence of <<artist, song>>
    ri,               \* how many contestants the loop has handled
    rows,             \* the list rows
    csv,              \* the rows written to the file, "unset" before
    \* ---- fetch._compute_sentiment and fetch._sentiment_label ----
    spc,              \* "idle", "call", "returned"
    sent_texts,       \* the list of texts, each a sequence of characters
    sent_score,       \* the returned score, in thousandths
    sent_lbl,         \* the label of that score
    \* ---- fetch._artist_in_text ----
    apc,              \* "idle", "call", "returned"
    match_artist,     \* the argument artist
    match_text,       \* the argument text
    match_result,     \* the returned boolean
    \* ---- fetch._extract_comment_nodes ----
    epc,              \* "idle", "call", "returned"
    ex_children,      \* the argument children: a list of nodes
    ex_comments,      \* the list comments after the call
    ex_more_ids,      \* the list more_ids after the call
    \* ---- build_site.wait_for_report_completion ----
    wpc,              \* "idle", "check", "poll", "returned"
    now,              \* time.time(), in seconds
    start_time,       \* time.time() when the function was entered
    attempts,         \* the loop counter attempts
    wresult,          \* the returned value: "none" while it runs, "True", "False"
    last_poll,        \* the last poll: its answer and the elapsed time checked before it
    npolls            \* how many polls were issued

pvars == <<entry, serata, urlEnv, pc, serata_num, attempt, data_source_id,
           report_id, failure, exitStatus, calls>>

fvars == <<fpc, comments, more_ids, bi, extra_more, post, lastCall, requested,
           extra_seen, anyFailed>>

mvars == <<mpc, artist, all_comments, metrics>>

rvars == <<rpc, contestants, ri, rows, csv>>

svars == <<spc, sent_texts, sent_score, sent_lbl>>

avars == <<apc, match_artist, match_text, match_result>>

evars == <<epc, ex_children, ex_comments, ex_more_ids>>

wvars == <<wpc, now, start_time, attempts, wresult, last_poll, npolls>>

vars == <<pvars, fvars, mvars, rvars, svars, avars, evars, wvars>>

(***************************************************************************)
(* Bounds and program constants                                            *)
(***************************************************************************)
MaxSerataLen == 2

REPORT_MAX_RETRIES == 3
REPORT_BACKOFF_FACTOR == 2
MaxAttempts == 20
Delay == 5

SerataChars == {"0", "1", "2", "5", "6", "-", " ", "a"}

SeqsUpTo(S, n) == UNION {[1..k -> S] : k \in 0..n}

(***************************************************************************)
(* int(): surrounding whitespace is stripped, one optional sign, then at   *)
(* least one decimal digit and nothing else; anything else is ValueError.  *)
(***************************************************************************)
Digits == {"0", "1", "2", "3", "4", "5", "6", "7", "8", "9"}

DigitVal(c) ==
    CASE c = "0" -> 0 [] c = "1" -> 1 [] c = "2" -> 2 [] c = "3" -> 3
      [] c = "4" -> 4 [] c = "5" -> 5 [] c = "6" -> 6 [] c = "7" -> 7
      [] c = "8" -> 8 [] OTHER -> 9

RECURSIVE LStrip(_)
LStrip(s) == IF s # <<>> /\ Head(s) = " " THEN LStrip(Tail(s)) ELSE s

RECURSIVE RStrip(_)
RStrip(s) ==
    IF s # <<>> /\ s[Len(s)] = " " THEN RStrip(SubSeq(s, 1, Len(s) - 1)) ELSE s

RECURSIVE DecimalValue(_)
DecimalValue(ds) ==
    IF ds = <<>> THEN 0
    ELSE 10 * DecimalValue(SubSeq(ds, 1, Len(ds) - 1)) + DigitVal(ds[Len(ds)])

ParseInt(s) ==
    LET t      == RStrip(LStrip(s))
        signed == t # <<>> /\ Head(t) \in {"-", "+"}
        ds     == IF signed THEN Tail(t) ELSE t
    IN  IF ds = <<>> \/ \E i \in 1..Len(ds) : ds[i] \notin Digits
        THEN [ok |-> FALSE, val |-> 0]
        ELSE [ok |-> TRUE,
              val |-> IF signed /\ Head(t) = "-" THEN 0 - DecimalValue(ds)
                      ELSE DecimalValue(ds)]

(***************************************************************************)
(* The log of external effects: network requests, git commands, sleeps     *)
(* and file writes.                                                        *)
(***************************************************************************)
Call(op, res, arg) == [op |-> op, res |-> res, arg |-> arg]

Fail(stage, kind) == [stage |-> stage, kind |-> kind]

NoFailure == Fail("none", "none")

\* sys.exit(status), or an exception no handler catches (status 1).
Exit(status, why) ==
    /\ pc' = IF status = 0 THEN "done" ELSE "failed"
    /\ exitStatus' = status
    /\ failure' = why

\* subprocess.run(..., check=True) of cmds in turn; command failAt raises
\* CalledProcessError and the later ones are not run (0: none fails).
GitRun(cmds, failAt) ==
    [i \in 1..(IF failAt = 0 THEN Len(cmds) ELSE failAt) |->
        Call(cmds[i], IF i = failAt THEN "fail" ELSE "ok", 0)]

(***************************************************************************)
(* pipeline.main, lines 165-177, and fetch.py __main__, lines 328-338:     *)
(* validation of SERATA.                                                   *)
(***************************************************************************)
\* Mutant: the lower end of the range check is off by one.
MainRangeOkFromZero(n) == ~(n < 0 \/ n > 5)

MainRangeOk(n) == ~(n < 1 \/ n > 5)

MainValidate ==
    /\ pc = "start"
    /\ entry = "pipeline"
    /\ IF serata = <<>>
       THEN Exit(1, Fail("validate", "invalid_serata")) /\ UNCHANGED serata_num
       ELSE LET p == ParseInt(serata) IN
            IF ~p.ok \/ ~MainRangeOk(p.val)
            THEN Exit(1, Fail("validate", "invalid_serata")) /\ UNCHANGED serata_num
            ELSE /\ serata_num' = p.val
                 /\ pc' = "fetch"
                 /\ UNCHANGED <<exitStatus, failure>>
    /\ UNCHANGED <<entry, serata, urlEnv, attempt, data_source_id, report_id, calls>>
    /\ UNCHANGED <<fvars, mvars, rvars, svars, avars, evars, wvars>>

ScriptRangeOk(n) == 1 <= n /\ n <= 5

ScriptValidate ==
    /\ pc = "start"
    /\ entry = "fetch"
    /\ IF serata = <<>>
       THEN Exit(1, Fail("validate", "invalid_serata")) /\ UNCHANGED serata_num
       ELSE LET p == ParseInt(serata) IN
            IF ~p.ok \/ ~ScriptRangeOk(p.val)
            THEN Exit(1, Fail("validate", "invalid_serata")) /\ UNCHANGED serata_num
            ELSE /\ serata_num' = p.val
                 /\ pc' = "fetch"
                 /\ UNCHANGED <<exitStatus, failure>>
    /\ UNCHANGED <<entry, serata, urlEnv, attempt, data_source_id, report_id, calls>>
    /\ UNCHANGED <<fvars, mvars, rvars, svars, avars, evars, wvars>>

(***************************************************************************)
(* fetch.fetch_data as the scripts see it: the URL lookup, the Reddit      *)
(* calls and the CSV write.  The comment walk itself is SpecFetch.         *)
(***************************************************************************)
MEGATHREAD_URLS(n) == IF n = 1 THEN "valid" ELSE "unset"

\* Mutant: an index without an entry falls back to the first entry.
MegathreadUrlOfFirst(env, n) == IF env # "unset" THEN env ELSE MEGATHREAD_URLS(1)

MegathreadUrl(env, n) == IF env # "unset" THEN env ELSE MEGATHREAD_URLS(n)

FetchOutcomes == {"ok", "malformed_json", "csv_error"}

FetchData ==
    /\ pc = "fetch"
    /\ LET url == MegathreadUrl(urlEnv, serata_num) IN
       \/ /\ url = "unset"
          /\ Exit(1, Fail("fetch", "no_url"))
          /\ UNCHANGED calls
       \/ /\ url = "unparsable"
          /\ Exit(1, Fail("fetch", "bad_url"))
          /\ UNCHANGED calls
       \/ /\ url = "valid"
          /\ \E o \in FetchOutcomes :
                CASE o = "malformed_json" ->
                        /\ calls' = Append(calls, Call("reddit_get", "ok", 0))
                        /\ Exit(1, Fail("fetch", "malformed_json"))
                  [] o = "csv_error" ->
                        /\ calls' = calls \o <<Call("reddit_get", "any", 0),
                                               Call("write_csv", "fail", 0)>>
                        /\ Exit(1, Fail("fetch", "csv_error"))
                  [] OTHER ->
                        /\ calls' = calls \o <<Call("reddit_get", "any", 0),
                                               Call("write_csv", "ok", 0)>>
                        /\ IF entry = "pipeline"
                           THEN pc' = "publish" /\ UNCHANGED <<exitStatus, failure>>
                           ELSE Exit(0, NoFailure)
    /\ UNCHANGED <<entry, serata, urlEnv, serata_num, attempt, data_source_id, report_id>>
    /\ UNCHANGED <<fvars, mvars, rvars, svars, avars, evars, wvars>>

(***************************************************************************)
(* pipeline.push_to_github, lines 49-58.                                   *)
(***************************************************************************)
PushToGithub ==
    /\ pc = "publish"
    /\ \E failAt \in 0..3 :
          /\ calls' = calls \o GitRun(<<"git_add", "git_commit", "git_push">>, failAt)
          /\ IF failAt = 0
             THEN /\ pc' = "await"
                  /\ attempt' = 1
                  /\ UNCHANGED <<exitStatus, failure>>
             ELSE /\ Exit(1, Fail("publish", "git"))
                  /\ UNCHANGED attempt
    /\ UNCHANGED <<entry, serata, urlEnv, serata_num, data_source_id, report_id>>
    /\ UNCHANGED <<fvars, mvars, rvars, svars, avars, evars, wvars>>

(***************************************************************************)
(* pipeline.wait_for_file_availability, lines 22-40, one loop iteration    *)
(* per step, called from main at line 190 (outside main's try block).      *)
(***************************************************************************)
RawResponses == {"200", "non200", "error"}

\* Mutant: after the last attempt the function returns False and main,
\* line 191, proceeds to create the data source.
WaitReturnsFalse ==
    /\ pc' = "create_source"
    /\ attempt' = 0
    /\ UNCHANGED <<exitStatus, failure>>

\* Line 40: the raise after the last attempt; main has no handler around
\* the call at line 190, so the process ends with a traceback.
WaitRaises ==
    /\ Exit(1, Fail("await", "exhausted"))
    /\ UNCHANGED attempt

\* Mutant: the function sleeps after every failed attempt, the last included.
WaitAttemptSleepsAfterLast ==
    /\ pc = "await"
    /\ \E resp \in RawResponses :
          IF resp = "200"
          THEN /\ calls' = Append(calls, Call("get_raw", "200", attempt))
               /\ pc' = "create_source"
               /\ attempt' = 0
               /\ UNCHANGED <<exitStatus, failure>>
          ELSE /\ calls' = calls \o <<Call("get_raw", "fail", attempt),
                                      Call("sleep", "", Delay)>>
               /\ IF attempt < MaxAttempts
                  THEN /\ attempt' = attempt + 1
                       /\ UNCHANGED <<pc, exitStatus, failure>>
                  ELSE WaitRaises
    /\ UNCHANGED <<entry, serata, urlEnv, serata_num, data_source_id, report_id>>
    /\ UNCHANGED <<fvars, mvars, rvars, svars, avars, evars, wvars>>

WaitAttempt ==
    /\ pc = "await"
    /\ \E resp \in RawResponses :
          IF resp = "200"
          THEN /\ calls' = Append(calls, Call("get_raw", "200", attempt))
               /\ pc' = "create_source"
               /\ attempt' = 0
               /\ UNCHANGED <<exitStatus, failure>>
          ELSE IF attempt < MaxAttempts
          THEN /\ calls' = calls \o <<Call("get_raw", "fail", attempt),
                                      Call("sleep", "", Delay)>>
               /\ attempt' = attempt + 1
               /\ UNCHANGED <<pc, exitStatus, failure>>
          ELSE /\ calls' = Append(calls, Call("get_raw", "fail", attempt))
               /\ WaitRaises
    /\ UNCHANGED <<entry, serata, urlEnv, serata_num, data_source_id, report_id>>
    /\ UNCHANGED <<fvars, mvars, rvars, svars, avars, evars, wvars>>

(***************************************************************************)
(* pipeline.create_data_source, lines 74-113, called from main line 195.   *)
(***************************************************************************)
SourceResponses == {"conn_error", "non201", "no_origins", "no_sources", "no_id", "ok"}

CreateDataSource ==
    /\ pc = "create_source"
    /\ \E resp \in SourceResponses :
          /\ calls' = Append(calls, Call("post_source", resp, 0))
          /\ IF resp = "ok"
             THEN /\ data_source_id' = "ds"
                  /\ pc' = "create_report"
                  /\ attempt' = 1
                  /\ UNCHANGED failure
             ELSE /\ pc' = "compensate"
                  /\ failure' = Fail("source", resp)
                  /\ UNCHANGED <<data_source_id, attempt>>
    /\ UNCHANGED <<entry, serata, urlEnv, serata_num, report_id, exitStatus>>
    /\ UNCHANGED <<fvars, mvars, rvars, svars, avars, evars, wvars>>

(***************************************************************************)
(* pipeline.create_report, lines 116-161, inside main's retry loop,        *)
(* lines 199-208: one attempt per step.                                    *)
(***************************************************************************)
ReportResponses == {"conn_error", "non201", "no_id", "ok"}

\* Line 161: the value of the response's 'id': a string, or None for a
\* JSON null.
ReportIds == {"r", "None"}

\* Mutant: the exponent counts the attempts from zero.
RECURSIVE PowFromZero(_, _)
PowFromZero(b, e) == IF e <= 1 THEN 1 ELSE b * PowFromZero(b, e - 1)

RECURSIVE Pow(_, _)
Pow(b, e) == IF e = 0 THEN 1 ELSE b * Pow(b, e - 1)

CreateReportAttempt ==
    /\ pc = "create_report"
    /\ \E resp \in ReportResponses :
          IF resp = "ok"
          THEN /\ calls' = Append(calls, Call("post_report", resp, attempt))
               /\ report_id' \in ReportIds
               /\ pc' = "write_id"
               /\ UNCHANGED <<attempt, failure>>
          ELSE IF attempt = REPORT_MAX_RETRIES
          THEN /\ calls' = Append(calls, Call("post_report", resp, attempt))
               /\ pc' = "compensate"
               /\ failure' = Fail("report", resp)
               /\ UNCHANGED <<attempt, report_id>>
          ELSE /\ calls' = calls \o <<Call("post_report", resp, attempt),
                                      Call("sleep", "", Pow(REPORT_BACKOFF_FACTOR, attempt))>>
               /\ attempt' = attempt + 1
               /\ UNCHANGED <<pc, report_id, failure>>
    /\ UNCHANGED <<entry, serata, urlEnv, serata_num, data_source_id, exitStatus>>
    /\ UNCHANGED <<fvars, mvars, rvars, svars, avars, evars, wvars>>

\* Mutant: the id is written as its text, str(report_id), so that None is
\* written as a word.
WriteReportIdAsText ==
    /\ pc = "write_id"
    /\ \E o \in {"ok", "fail"} :
          /\ calls' = Append(calls, Call("write_report_id", o, 0))
          /\ IF o = "ok"
             THEN Exit(0, NoFailure)
             ELSE /\ pc' = "compensate"
                  /\ failure' = Fail("write_id", "io")
                  /\ UNCHANGED exitStatus
    /\ UNCHANGED <<entry, serata, urlEnv, serata_num, attempt, data_source_id, report_id>>
    /\ UNCHANGED <<fvars, mvars, rvars, svars, avars, evars, wvars>>

(***************************************************************************)
(* main, lines 210-215: report_id.txt.  open(..., "w") creates or empties  *)
(* the file; f.write accepts a str only and raises TypeError for None,     *)
(* which leaves the file empty; an OSError of open or of the flush leaves  *)
(* the file as it was, empty or partly written.  Both exceptions are       *)
(* caught by the handler of line 217.                                      *)
(***************************************************************************)
WriteReportId ==
    /\ pc = "write_id"
    /\ IF report_id = "None"
       THEN /\ calls' = Append(calls, Call("write_report_id", "type_error", 0))
            /\ pc' = "compensate"
            /\ failure' = Fail("write_id", "type")
            /\ UNCHANGED exitStatus
       ELSE \E o \in {"ok", "fail"} :
               /\ calls' = Append(calls, Call("write_report_id", o, 0))
               /\ IF o = "ok"
                  THEN Exit(0, NoFailure)
                  ELSE /\ pc' = "compensate"
                       /\ failure' = Fail("write_id", "io")
                       /\ UNCHANGED exitStatus
    /\ UNCHANGED <<entry, serata, urlEnv, serata_num, attempt, data_source_id, report_id>>
    /\ UNCHANGED <<fvars, mvars, rvars, svars, avars, evars, wvars>>

\* Mutant: a failing git command of the delete raises out of the function
\* and replaces the failure the handler was dealing with.
DeleteFileFromRepoRaises ==
    /\ pc = "compensate"
    /\ \E failAt \in 0..3 :
          /\ calls' = calls \o GitRun(<<"git_rm", "git_commit", "git_push">>, failAt)
          /\ failure' = IF failAt = 0 THEN failure ELSE Fail("delete", "git")
    /\ pc' = "failed"
    /\ exitStatus' = 1
    /\ UNCHANGED <<entry, serata, urlEnv, serata_num, attempt, data_source_id,
                   report_id>>
    /\ UNCHANGED <<fvars, mvars, rvars, svars, avars, evars, wvars>>

(***************************************************************************)
(* main's handler, lines 217-220: delete_file_from_repo (lines 61-71),     *)
(* which swallows CalledProcessError, then sys.exit(1).                    *)
(***************************************************************************)
DeleteFileFromRepo ==
    /\ pc = "compensate"
    /\ \E failAt \in 0..3 :
          calls' = calls \o GitRun(<<"git_rm", "git_commit", "git_push">>, failAt)
    /\ pc' = "failed"
    /\ exitStatus' = 1
    /\ UNCHANGED <<entry, serata, urlEnv, serata_num, attempt, data_source_id,
                   report_id, failure>>
    /\ UNCHANGED <<fvars, mvars, rvars, svars, avars, evars, wvars>>

NoMetrics ==
    [mentions |-> 0, total_score |-> 0, score |-> 0, label |-> "", top_comments |-> <<>>]

\* The aggregator's variables while another specification runs.
MetricsIdle ==
    /\ mpc = "idle"
    /\ artist = <<>>
    /\ all_comments = <<>>
    /\ metrics = NoMetrics

\* The report poller's variables while another specification runs.
NoPoll == [answer |-> "none", elapsed |-> 0]

PollIdle ==
    /\ wpc = "idle"
    /\ now = 0
    /\ start_time = 0
    /\ attempts = 0
    /\ wresult = "none"
    /\ last_poll = NoPoll
    /\ npolls = 0

\* The node walker's variables while another specification runs.
ExtractIdle ==
    /\ epc = "idle"
    /\ ex_children = <<>>
    /\ ex_comments = <<>>
    /\ ex_more_ids = <<>>

\* The sentiment functions' variables while another specification runs.
SentimentIdle ==
    /\ spc = "idle"
    /\ sent_texts = <<>>
    /\ sent_score = 0
    /\ sent_lbl = ""

\* The matcher's variables while another specification runs.
MatchIdle ==
    /\ apc = "idle"
    /\ match_artist = <<>>
    /\ match_text = <<>>
    /\ match_result = FALSE

\* The row loop's variables while another specification runs.
RowsIdle ==
    /\ rpc = "idle"
    /\ contestants = <<>>
    /\ ri = 0
    /\ rows = <<>>
    /\ csv = "unset"

\* The fetcher's variables while the pipeline specification runs.
FetchIdle ==
    /\ fpc = "idle"
    /\ comments = <<>>
    /\ more_ids = <<>>
    /\ bi = 0
    /\ extra_more = <<>>
    /\ post = "unset"
    /\ lastCall = [events |-> <<>>, result |-> "None"]
    /\ requested = <<>>
    /\ extra_seen = {}
    /\ anyFailed = FALSE

PipelineInit ==
    /\ PollIdle
    /\ ExtractIdle
    /\ entry \in {"pipeline", "fetch"}
    /\ serata \in SeqsUpTo(SerataChars, MaxSerataLen)
    /\ urlEnv \in {"unset", "valid", "unparsable"}
    /\ pc = "start"
    /\ serata_num = 0
    /\ attempt = 0
    /\ data_source_id = ""
    /\ report_id = "None"
    /\ failure = NoFailure
    /\ exitStatus = -1
    /\ calls = <<>>
    /\ FetchIdle
    /\ MetricsIdle
    /\ RowsIdle
    /\ SentimentIdle
    /\ MatchIdle

PipelineNext ==
    \/ MainValidate
    \/ ScriptValidate
    \/ FetchData
    \/ PushToGithub
    \/ WaitAttempt
    \/ CreateDataSource
    \/ CreateReportAttempt
    \/ WriteReportId
    \/ DeleteFileFromRepo

SpecPipeline == PipelineInit /\ [][PipelineNext]_vars

(***************************************************************************)
(* Reading the log                                                         *)
(***************************************************************************)
HasCall(op) == \E i \in DOMAIN calls : calls[i].op = op

CountCalls(op) == Cardinality({i \in DOMAIN calls : calls[i].op = op})

\* The calls of the forward path: those before the compensating git rm.
ForwardCalls ==
    LET rm == {i \in DOMAIN calls : calls[i].op = "git_rm"}
    IN  IF rm = {} THEN calls
        ELSE SubSeq(calls, 1, (CHOOSE i \in rm : \A j \in rm : i <= j) - 1)

PushSucceeded ==
    \E i \in DOMAIN ForwardCalls :
        ForwardCalls[i].op = "git_push" /\ ForwardCalls[i].res = "ok"

StageOf(op) ==
    CASE op \in {"reddit_get", "write_csv"} -> 1
      [] op \in {"git_add", "git_commit", "git_push"} -> 2
      [] op = "get_raw" -> 3
      [] op = "post_source" -> 4
      [] op = "post_report" -> 5
      [] op = "write_report_id" -> 6
      [] OTHER -> 0

\* The call that completes a stage successfully.
Completes(c) ==
    \/ c.op = "write_csv" /\ c.res = "ok"
    \/ c.op = "git_push" /\ c.res = "ok"
    \/ c.op = "get_raw" /\ c.res = "200"
    \/ c.op = "post_source" /\ c.res = "ok"
    \/ c.op = "post_report" /\ c.res = "ok"

(***************************************************************************)
(* C1 (as stated): once push_to_github succeeded, a run that fails in      *)
(* AWAIT_AVAILABILITY, CREATE_SOURCE or CREATE_REPORT has called           *)
(* delete_file_from_repo by the time the process has terminated.           *)
(***************************************************************************)
C1_LateFailureIsCompensated ==
    (pc = "failed" /\ PushSucceeded /\ failure.stage \in {"await", "source", "report"})
        => HasCall("git_rm")

(***************************************************************************)
(* C2: the calls of a run follow the order FETCH, PUBLISH,                 *)
(* AWAIT_AVAILABILITY, CREATE_SOURCE, CREATE_REPORT, DONE; a stage issues  *)
(* a call only after the previous stage completed successfully (so no      *)
(* data-source request without a successful push and a 200 of the raw      *)
(* URL, no report request without a data-source id); a run that cannot     *)
(* step is DONE with status 0 or FAILED with a non-zero status.            *)
(***************************************************************************)
C2_StagesInOrder ==
    LET f  == SelectSeq(ForwardCalls, LAMBDA c : StageOf(c.op) > 0)
        st == [k \in DOMAIN f |-> StageOf(f[k].op)]
    IN
    /\ f # <<>> => st[1] = 1
    /\ \A k \in 1..(Len(f) - 1) :
          \/ st[k + 1] = st[k]
          \/ st[k + 1] = st[k] + 1 /\ Completes(f[k])
    /\ \A i \in DOMAIN calls :
          calls[i].op = "post_source"
              => /\ \E j \in 1..(i - 1) : calls[j].op = "git_push" /\ calls[j].res = "ok"
                 /\ \E j \in 1..(i - 1) : calls[j].op = "get_raw" /\ calls[j].res = "200"
    /\ \A i \in DOMAIN calls :
          calls[i].op = "post_report"
              => /\ data_source_id # ""
                 /\ \E j \in 1..(i - 1) : calls[j].op = "post_source" /\ calls[j].res = "ok"
    /\ pc \in {"done", "failed"} \/ ENABLED PipelineNext
    /\ pc = "failed" => exitStatus > 0
    /\ pc = "done" => exitStatus = 0 /\ failure = NoFailure
    /\ (pc = "done" /\ entry = "pipeline")
          => calls[Len(calls)] = Call("write_report_id", "ok", 0)

C2_Witness ==
    /\ pc = "done"
    /\ entry = "pipeline"
    /\ CountCalls("get_raw") > 1
    /\ CountCalls("post_report") > 1

Spaces(n) == [i \in 1..n |-> " "]

Zeros(n) == [i \in 1..n |-> "0"]

ValidNumerals ==
    {Spaces(a) \o sign \o Zeros(z) \o <<d>> \o Spaces(b) :
        a \in 0..MaxSerataLen, z \in 0..MaxSerataLen, b \in 0..MaxSerataLen,
        sign \in {<<>>, <<"+">>}, d \in {"1", "2", "3", "4", "5"}}

(***************************************************************************)
(* C5: a SERATA that is empty, not a number, or a number outside 1..5      *)
(* ends either entry point with a non-zero status before any network       *)
(* call, git command or file write.  The numerals of 1..5 are written      *)
(* out here independently of the parser.                                   *)
(***************************************************************************)
C5_InvalidSerataExitsFirst ==
    serata \notin ValidNumerals
        => \/ pc = "start"
           \/ pc = "failed" /\ exitStatus > 0 /\ calls = <<>>

C5_Witness ==
    /\ serata \notin ValidNumerals
    /\ serata # <<>>
    /\ ParseInt(serata).ok
    /\ entry = "fetch"
    /\ pc = "failed"

Malformed(c) ==
    \/ c.op = "post_source" /\ c.res \in {"no_origins", "no_sources"}
    \/ c.op = "post_report" /\ c.res = "no_id"

(***************************************************************************)
(* C6 (as stated): a success response of unexpected shape is never         *)
(* retried: after a data-source response without created_data_origins or   *)
(* data_sources, or a 201 report response without 'id', the same request   *)
(* is not sent again.                                                      *)
(***************************************************************************)
C6_MalformedResponseNotRetried ==
    \A i, j \in DOMAIN calls :
        (i < j /\ Malformed(calls[i])) => calls[j].op # calls[i].op

StageRequest(stage) == IF stage = "source" THEN "post_source" ELSE "post_report"

(***************************************************************************)
(* C7 (as stated): a stage of the pipeline that ended on a transient       *)
(* error (connection error or non-success status) had sent its request     *)
(* at least twice, with a sleep in between.                                *)
(***************************************************************************)
C7_TransientErrorIsRetried ==
    (failure.stage \in {"source", "report"} /\ failure.kind \in {"conn_error", "non201"})
        => \E i, j, k \in DOMAIN calls :
              /\ i < k /\ k < j
              /\ calls[i].op = StageRequest(failure.stage)
              /\ calls[k].op = "sleep"
              /\ calls[j].op = StageRequest(failure.stage)

(***************************************************************************)
(*                     The megathread fetcher (fetch.py)                   *)
(***************************************************************************)
MORE_BATCH == 100
REQUEST_DELAY_MS == 1200
RATE_LIMIT_SLEEP_MS == 30000

\* The pipeline's variables while a fetcher specification runs.
PipelineIdle ==
    /\ entry = "fetch"
    /\ serata = <<"1">>
    /\ urlEnv = "unset"
    /\ pc = "idle"
    /\ serata_num = 1
    /\ attempt = 0
    /\ data_source_id = ""
    /\ report_id = "None"
    /\ failure = NoFailure
    /\ exitStatus = -1
    /\ calls = <<>>

(***************************************************************************)
(* _reddit_get, lines 96-109.  One SESSION.get is one request here; r1 and *)
(* r2 are what the first and the second SESSION.get do:                    *)
(*   "ok"         a response raise_for_status accepts, with a JSON body    *)
(*   "429"        status 429                                               *)
(*   "http_error" another status raise_for_status rejects                  *)
(*   "exception"  SESSION.get itself raises                                *)
(*   "bad_json"   a success status whose body resp.json() cannot parse     *)
(***************************************************************************)
GetOutcomes == {"ok", "429", "http_error", "exception", "bad_json"}

\* Mutant: the rate-limit retry is a loop that tries once more.
RedditGetRetriesTwice(r1, r2) ==
    LET first  == <<Call("sleep", "", REQUEST_DELAY_MS), Call("get", r1, 0)>>
        second == <<Call("sleep", "", RATE_LIMIT_SLEEP_MS), Call("get", r2, 0)>>
        events == IF r1 # "429" THEN first
                  ELSE IF r2 # "429" THEN first \o second
                  ELSE first \o second \o second
        final  == IF r1 = "429" THEN r2 ELSE r1
    IN  [events |-> events, result |-> IF final = "ok" THEN "json" ELSE "None"]

RedditGet(r1, r2) ==
    LET first  == <<Call("sleep", "", REQUEST_DELAY_MS), Call("get", r1, 0)>>
        second == <<Call("sleep", "", RATE_LIMIT_SLEEP_MS), Call("get", r2, 0)>>
        events == IF r1 = "429" THEN first \o second ELSE first
        final  == IF r1 = "429" THEN r2 ELSE r1
    IN  [events |-> events, result |-> IF final = "ok" THEN "json" ELSE "None"]

(***************************************************************************)
(* Comment tree nodes of the Reddit JSON: a comment (kind t1) with its     *)
(* body, score and replies, or a 'more' placeholder with continuation ids. *)
(* replies is the children list of the replies listing, empty when the     *)
(* field is "" or absent.                                                  *)
(***************************************************************************)
Cm(body, score, replies) ==
    [kind |-> "t1", body |-> body, score |-> score, replies |-> replies,
     children |-> <<>>]

More(ids) ==
    [kind |-> "more", body |-> "", score |-> 0, replies |-> <<>>, children |-> ids]

Ids(a, b) == [i \in 1..(b - a + 1) |-> a + i - 1]

CommentAvailable(body) == body # "" /\ body \notin {"[deleted]", "[removed]"}

\* Mutant: the replies of an unavailable comment are not walked.
RECURSIVE ExtractSkipsUnavailableSubtrees(_, _, _)
ExtractSkipsUnavailableSubtrees(children, cs, ms) ==
    IF children = <<>> THEN [comments |-> cs, more_ids |-> ms]
    ELSE LET child == Head(children)
             after ==
                IF child.kind = "t1"
                THEN IF CommentAvailable(child.body)
                     THEN ExtractSkipsUnavailableSubtrees(
                              child.replies,
                              Append(cs, [body |-> child.body, score |-> child.score]),
                              ms)
                     ELSE [comments |-> cs, more_ids |-> ms]
                ELSE IF child.kind = "more"
                THEN [comments |-> cs, more_ids |-> ms \o child.children]
                ELSE [comments |-> cs, more_ids |-> ms]
         IN  ExtractSkipsUnavailableSubtrees(Tail(children), after.comments,
                                             after.more_ids)

\* _extract_comment_nodes, lines 121-142: returns the two accumulators.
RECURSIVE ExtractCommentNodes(_, _, _)
ExtractCommentNodes(children, cs, ms) ==
    IF children = <<>> THEN [comments |-> cs, more_ids |-> ms]
    ELSE LET child == Head(children)
             after ==
                IF child.kind = "t1"
                THEN LET cs1 == IF CommentAvailable(child.body)
                                THEN Append(cs, [body |-> child.body,
                                                 score |-> child.score])
                                ELSE cs
                     IN  ExtractCommentNodes(child.replies, cs1, ms)
                ELSE IF child.kind = "more"
                THEN [comments |-> cs, more_ids |-> ms \o child.children]
                ELSE [comments |-> cs, more_ids |-> ms]
         IN  ExtractCommentNodes(Tail(children), after.comments, after.more_ids)

(***************************************************************************)
(* What Reddit may answer.  Distinct comments have distinct bodies.        *)
(***************************************************************************)
MoreCounts == {0, 1, MORE_BATCH, MORE_BATCH + 1, 2 * MORE_BATCH + 1}

ListingChildren ==
    {<<>>, <<Cm("A", 3, <<>>)>>}
    \cup {<<Cm("A", 3, <<Cm("B", 1, <<>>)>>), More(Ids(1, n))>> : n \in MoreCounts}
    \cup {<<Cm("[deleted]", 0, <<Cm("B", 2, <<>>), More(Ids(1, n))>>),
            Cm("", 0, <<>>), More(<<500>>)>> : n \in MoreCounts}

\* The JSON of the thread listing: data[1]["data"]["children"] when the
\* body is a list of at least two listings.
ListingBodies ==
    {[kind |-> k, children |-> <<>>] : k \in {"empty", "dict", "short_list"}}
    \cup {[kind |-> "list", children |-> c] : c \in ListingChildren}

ThingsChoices ==
    {<<>>,
     <<Cm("C", 5, <<>>)>>,
     <<Cm("A", 3, <<>>)>>,
     <<More(<<1000>>)>>,
     <<Cm("[removed]", 0, <<Cm("D", 2, <<More(<<1001>>)>>)>>)>>}

\* The JSON of a morechildren answer: json.data.things when it is a dict.
MoreBodies ==
    {[kind |-> k, things |-> <<>>] : k \in {"empty_dict", "list"}}
    \cup {[kind |-> "dict", things |-> t] : t \in ThingsChoices}

Min(a, b) == IF a < b THEN a ELSE b

SeqRange(q) == {q[i] : i \in DOMAIN q}

(***************************************************************************)
(* _fetch_all_megathread_comments, lines 150-161: the listing call.        *)
(***************************************************************************)
ListingUnusable(g, data) ==
    g.result = "None" \/ data.kind \in {"empty", "dict", "short_list"}

FetchListing ==
    /\ fpc = "start"
    /\ \E r1 \in GetOutcomes, r2 \in GetOutcomes, data \in ListingBodies :
          LET g == RedditGet(r1, r2) IN
          /\ lastCall' = g
          /\ anyFailed' = (g.result = "None")
          /\ IF ListingUnusable(g, data)
             THEN /\ fpc' = "done"
                  /\ post' = "empty"
                  /\ UNCHANGED <<comments, more_ids>>
             ELSE LET ex == ExtractCommentNodes(data.children, <<>>, <<>>) IN
                  /\ fpc' = "batches"
                  /\ post' = "post"
                  /\ comments' = ex.comments
                  /\ more_ids' = ex.more_ids
    /\ UNCHANGED <<bi, extra_more, requested, extra_seen>>
    /\ UNCHANGED <<pvars, mvars, rvars, svars, avars, evars, wvars>>

(***************************************************************************)
(* Lines 164-180: one iteration of the batch loop.                         *)
(***************************************************************************)
\* Mutant: a failed call is not skipped, so more_data.get is called on None.
MoreDataMissingOnlyEmpty(g, body) == g.result # "None" /\ body.kind = "empty_dict"

\* Line 175: if not more_data (None after a failed call, or an empty body).
MoreDataMissing(g, body) == g.result = "None" \/ body.kind = "empty_dict"

\* Lines 177-180: extra_more is a fresh list for each answer that nothing
\* reads afterwards; more_ids and the loop's range are left as they are.
FetchBatch ==
    /\ fpc = "batches"
    /\ bi < Len(more_ids)
    /\ LET batch == SubSeq(more_ids, bi + 1, Min(bi + MORE_BATCH, Len(more_ids))) IN
       /\ requested' = Append(requested, batch)
       /\ \E r1 \in GetOutcomes, r2 \in GetOutcomes, body \in MoreBodies :
             LET g == RedditGet(r1, r2) IN
             /\ lastCall' = g
             /\ anyFailed' = (anyFailed \/ g.result = "None")
             /\ IF MoreDataMissing(g, body)
                THEN /\ bi' = bi + MORE_BATCH
                     /\ UNCHANGED <<fpc, comments, more_ids, extra_more, extra_seen>>
                ELSE IF g.result = "None" \/ body.kind # "dict"
                THEN /\ fpc' = "raised"
                     /\ UNCHANGED <<bi, comments, more_ids, extra_more, extra_seen>>
                ELSE LET ex == ExtractCommentNodes(body.things, comments, <<>>) IN
                     /\ comments' = ex.comments
                     /\ extra_more' = ex.more_ids
                     /\ extra_seen' = extra_seen \cup SeqRange(ex.more_ids)
                     /\ bi' = bi + MORE_BATCH
                     /\ UNCHANGED <<fpc, more_ids>>
    /\ UNCHANGED post
    /\ UNCHANGED <<pvars, mvars, rvars, svars, avars, evars, wvars>>

\* Mutant: the loop is left once the first batch was sent.
FetchReturnAfterFirstBatch ==
    /\ fpc = "batches"
    /\ bi >= Min(MORE_BATCH, Len(more_ids))
    /\ fpc' = "done"
    /\ UNCHANGED <<comments, more_ids, bi, extra_more, post, lastCall, requested,
                   extra_seen, anyFailed>>
    /\ UNCHANGED <<pvars, mvars, rvars, svars, avars, evars, wvars>>

\* Lines 182-183: the loop is over, the function returns (post, comments).
FetchReturn ==
    /\ fpc = "batches"
    /\ bi >= Len(more_ids)
    /\ fpc' = "done"
    /\ UNCHANGED <<comments, more_ids, bi, extra_more, post, lastCall, requested,
                   extra_seen, anyFailed>>
    /\ UNCHANGED <<pvars, mvars, rvars, svars, avars, evars, wvars>>

FetchInit ==
    /\ PollIdle
    /\ ExtractIdle
    /\ PipelineIdle
    /\ MetricsIdle
    /\ RowsIdle
    /\ SentimentIdle
    /\ MatchIdle
    /\ fpc = "start"
    /\ comments = <<>>
    /\ more_ids = <<>>
    /\ bi = 0
    /\ extra_more = <<>>
    /\ post = "unset"
    /\ lastCall = [events |-> <<>>, result |-> "None"]
    /\ requested = <<>>
    /\ extra_seen = {}
    /\ anyFailed = FALSE

FetchNext ==
    \/ FetchListing
    \/ FetchBatch
    \/ FetchReturn

SpecFetch == FetchInit /\ [][FetchNext]_vars

\* Every request ends (timeout=20 on each SESSION.get, line 100) and the
\* for loop then goes on: a step that can be taken is taken.
SpecFetchLive == SpecFetch /\ WF_vars(FetchNext)

(***************************************************************************)
(* Reading the fetcher's state                                             *)
(***************************************************************************)
RequestedIds == UNION {SeqRange(requested[k]) : k \in DOMAIN requested}

\* The consecutive batches of at most MORE_BATCH ids of a list.
Batches(ids) ==
    [k \in 1..((Len(ids) + MORE_BATCH - 1) \div MORE_BATCH) |->
        SubSeq(ids, (k - 1) * MORE_BATCH + 1, Min(k * MORE_BATCH, Len(ids)))]

Gets(call) == SelectSeq(call.events, LAMBDA c : c.op = "get")

(***************************************************************************)
(* C3 (as stated): when every network call succeeded, the function         *)
(* returns only after every continuation id it discovered, in the initial  *)
(* listing or in a morechildren response, was sent in a morechildren       *)
(* request.                                                                *)
(***************************************************************************)
C3_EveryContinuationIdRequested ==
    (fpc = "done" /\ ~anyFailed)
        => (SeqRange(more_ids) \cup extra_seen) \subseteq RequestedIds

(***************************************************************************)
(* C4 (as stated): the corpus holds each comment of the thread at most     *)
(* once (distinct comments have distinct bodies in ListingChildren and     *)
(* ThingsChoices), also when a morechildren response delivers a comment    *)
(* again.                                                                  *)
(***************************************************************************)
C4_NoCommentTwice ==
    \A i, j \in DOMAIN comments : i < j => comments[i].body # comments[j].body

(***************************************************************************)
(* C8: a failed Reddit call is not fatal.  A failed listing call returns   *)
(* the empty corpus; a failed batch call leaves the corpus as it was and   *)
(* the loop goes on to the next batch; no failed call makes the function   *)
(* raise; and when the function returns, every batch of the collected ids  *)
(* was requested, whichever calls failed.                                  *)
(***************************************************************************)
C8_FailedCallIsNotFatal ==
    /\ [](/\ (fpc = "done" /\ requested = <<>> /\ lastCall.result = "None")
                => (comments = <<>> /\ post = "empty")
          /\ fpc = "raised" => lastCall.result # "None"
          /\ (fpc = "done" /\ post = "post") => requested = Batches(more_ids))
    /\ [][(fpc = "batches" /\ requested' # requested /\ lastCall'.result = "None")
            => /\ comments' = comments
               /\ fpc' = "batches"
               /\ bi' = bi + MORE_BATCH]_vars

C8_Witness ==
    /\ fpc = "done"
    /\ anyFailed
    /\ Len(requested) = 3
    /\ lastCall.result = "json"
    /\ Len(comments) >= 3

MaxCorpus == 4

UpperCase ==
    <<"A", "B", "C", "D", "E", "F", "G", "H", "I", "J", "K", "L", "M",
      "N", "O", "P", "Q", "R", "S", "T", "U", "V", "W", "X", "Y", "Z", "À">>

LowerCase ==
    <<"a", "b", "c", "d", "e", "f", "g", "h", "i", "j", "k", "l", "m",
      "n", "o", "p", "q", "r", "s", "t", "u", "v", "w", "x", "y", "z", "à">>

DigitChars == {"0", "1", "2", "3", "4", "5", "6", "7", "8", "9"}

WhitespaceChars == {" ", "\t", "\n"}

\* str.lower(), character by character.
LowerMap ==
    [c \in {UpperCase[i] : i \in DOMAIN UpperCase} |->
        LowerCase[CHOOSE i \in DOMAIN UpperCase : UpperCase[i] = c]]

LowerChar(c) == IF c \in DOMAIN LowerMap THEN LowerMap[c] ELSE c

Lower(str) == [i \in DOMAIN str |-> LowerChar(str[i])]

\* a in t, for strings.
IsSubstring(a, t) ==
    \E k \in 0..(Len(t) - Len(a)) : SubSeq(t, k + 1, k + Len(a)) = a

\* str.split(): the maximal runs of non-whitespace characters.
RECURSIVE SplitFrom(_, _, _)
SplitFrom(str, cur, acc) ==
    IF str = <<>> THEN (IF cur = <<>> THEN acc ELSE Append(acc, cur))
    ELSE IF Head(str) \in WhitespaceChars
    THEN SplitFrom(Tail(str), <<>>, IF cur = <<>> THEN acc ELSE Append(acc, cur))
    ELSE SplitFrom(Tail(str), Append(cur, Head(str)), acc)

Split(str) == SplitFrom(str, <<>>, <<>>)

\* Mutant: a part of three characters is long enough to match.
ArtistInTextThreeChars(name, text) ==
    IF text = <<>> THEN FALSE
    ELSE LET t     == Lower(text)
             a     == Lower(name)
             parts == Split(a)
         IN  \/ IsSubstring(a, t)
             \/ \E k \in DOMAIN parts :
                    Len(parts[k]) >= 3 /\ IsSubstring(parts[k], t)

\* _artist_in_text, lines 209-220.
ArtistInText(name, text) ==
    IF text = <<>> THEN FALSE
    ELSE LET t     == Lower(text)
             a     == Lower(name)
             parts == Split(a)
         IN  \/ IsSubstring(a, t)
             \/ \E k \in DOMAIN parts :
                    Len(parts[k]) >= 4 /\ IsSubstring(parts[k], t)

POSITIVE_WORDS ==
    {<<"b", "r", "a", "v", "o">>,
     <<"b", "r", "a", "v", "a">>,
     <<"b", "r", "a", "v", "i">>,
     <<"b", "r", "a", "v", "e">>,
     <<"f", "a", "n", "t", "a", "s", "t", "i", "c", "o">>,
     <<"f", "a", "n", "t", "a", "s", "t", "i", "c", "a">>,
     <<"b", "e", "l", "l", "i", "s", "s", "i", "m", "o">>,
     <<"b", "e", "l", "l", "i", "s", "s", "i", "m", "a">>,
     <<"o", "t", "t", "i", "m", "o">>,
     <<"o", "t", "t", "i", "m", "a">>,
     <<"p", "e", "r", "f", "e", "t", "t", "o">>,
     <<"p", "e", "r", "f", "e", "t", "t", "a">>,
     <<"s", "t", "r", "a", "o", "r", "d", "i", "n", "a", "r", "i", "o">>,
     <<"s", "t", "r", "a", "o", "r", "d", "i", "n", "a", "r", "i", "a">>,
     <<"m", "e", "r", "a", "v", "i", "g", "l", "i", "o", "s", "o">>,
     <<"m", "e", "r", "a", "v", "i", "g", "l", "i", "o", "s", "a">>,
     <<"t", "o", "p">>,
     <<"m", "i", "g", "l", "i", "o", "r", "e">>,
     <<"b", "e", "l", "l", "o">>,
     <<"b", "e", "l", "l", "a">>,
     <<"s", "t", "u", "p", "e", "n", "d", "o">>,
     <<"s", "t", "u", "p", "e", "n", "d", "a">>,
     <<"e", "m", "o", "z", "i", "o", "n", "a", "n", "t", "e">>,
     <<"c", "o", "m", "m", "o", "v", "e", "n", "t", "e">>,
     <<"p", "o", "t", "e", "n", "t", "e">>,
     <<"f", "o", "r", "t", "e">>,
     <<"e", "p", "i", "c", "o">>,
     <<"e", "p", "i", "c", "a">>,
     <<"c", "a", "p", "o", "l", "a", "v", "o", "r", "o">>,
     <<"a", "m", "o", "r", "e">>,
     <<"a", "d", "o", "r", "o">>,
     <<"t", "i", "f", "o">>,
     <<"f", "a", "v", "o", "r", "i", "t", "o">>,
     <<"f", "a", "v", "o", "r", "i", "t", "a">>,
     <<"f", "e", "n", "o", "m", "e", "n", "o">>,
     <<"t", "a", "l", "e", "n", "t", "o">>,
     <<"a", "p", "p", "l", "a", "u", "s", "i">>,
     <<"a", "p", "p", "l", "a", "u", "s", "o">>,
     <<"v", "i", "n", "c", "i", "t", "o", "r", "e">>,
     <<"v", "i", "n", "c", "i", "t", "r", "i", "c", "e">>,
     <<"v", "i", "n", "c", "e">>,
     <<"v", "i", "n", "c", "e", "r", "à">>,
     <<"e", "c", "c", "e", "l", "l", "e", "n", "t", "e">>,
     <<"g", "r", "a", "n", "d", "i", "o", "s", "o">>,
     <<"g", "r", "a", "n", "d", "i", "o", "s", "a">>,
     <<"m", "a", "g", "n", "i", "f", "i", "c", "o">>,
     <<"m", "a", "g", "n", "i", "f", "i", "c", "a">>,
     <<"s", "o", "r", "p", "r", "e", "n", "d", "e", "n", "t", "e">>,
     <<"i", "n", "c", "a", "n", "t", "e", "v", "o", "l", "e">>,
     <<"t", "o", "c", "c", "a", "n", "t", "e">>,
     <<"o", "r", "i", "g", "i", "n", "a", "l", "e">>,
     <<"c", "r", "e", "a", "t", "i", "v", "o">>,
     <<"c", "r", "e", "a", "t", "i", "v", "a">>,
     <<"i", "n", "n", "o", "v", "a", "t", "i", "v", "o">>,
     <<"i", "n", "n", "o", "v", "a", "t", "i", "v", "a">>,
     <<"c", "o", "i", "n", "v", "o", "l", "g", "e", "n", "t", "e">>,
     <<"e", "n", "e", "r", "g", "i", "a">>,
     <<"e", "n", "e", "r", "g", "i", "c", "o">>,
     <<"e", "s", "p", "l", "o", "s", "i", "v", "o">>,
     <<"e", "s", "p", "l", "o", "s", "i", "v", "a">>,
     <<"u", "n", "i", "c", "o">>,
     <<"u", "n", "i", "c", "a">>,
     <<"p", "a", "z", "z", "e", "s", "c", "o">>,
     <<"p", "a", "z", "z", "e", "s", "c", "a">>,
     <<"i", "n", "c", "r", "e", "d", "i", "b", "i", "l", "e">>,
     <<"p", "i", "a", "c", "e">>,
     <<"b", "e", "n", "i", "s", "s", "i", "m", "o">>,
     <<"s", "u", "p", "e", "r">>,
     <<"g", "r", "a", "n", "d", "e">>,
     <<"g", "r", "a", "n", "d", "i">>,
     <<"w", "o", "w">>,
     <<"b", "e", "n", "e">>,
     <<"s", "i", "m", "p", "a", "t", "i", "c", "o">>,
     <<"s", "i", "m", "p", "a", "t", "i", "c", "a">>}

NEGATIVE_WORDS ==
    {<<"p", "e", "s", "s", "i", "m", "o">>,
     <<"p", "e", "s", "s", "i", "m", "a">>,
     <<"o", "r", "r", "i", "b", "i", "l", "e">>,
     <<"d", "e", "l", "u", "d", "e", "n", "t", "e">>,
     <<"d", "e", "l", "u", "d", "e">>,
     <<"s", "c", "a", "d", "e", "n", "t", "e">>,
     <<"n", "o", "i", "o", "s", "o">>,
     <<"n", "o", "i", "o", "s", "a">>,
     <<"s", "b", "a", "g", "l", "i", "a", "t", "o">>,
     <<"s", "b", "a", "g", "l", "i", "a", "t", "a">>,
     <<"o", "d", "i", "o">>,
     <<"d", "e", "t", "e", "s", "t", "o">>,
     <<"b", "r", "u", "t", "t", "o">>,
     <<"b", "r", "u", "t", "t", "a">>,
     <<"t", "e", "r", "r", "i", "b", "i", "l", "e">>,
     <<"d", "i", "s", "a", "s", "t", "r", "o", "s", "o">>,
     <<"d", "i", "s", "a", "s", "t", "r", "o", "s", "a">>,
     <<"d", "e", "l", "u", "s", "i", "o", "n", "e">>,
     <<"b", "a", "n", "a", "l", "e">>,
     <<"b", "a", "n", "a", "l", "i", "t", "à">>,
     <<"i", "n", "u", "t", "i", "l", "e">>,
     <<"s", "c", "a", "r", "s", "o">>,
     <<"s", "c", "a", "r", "s", "a">>,
     <<"m", "e", "d", "i", "o", "c", "r", "e">>,
     <<"r", "i", "d", "i", "c", "o", "l", "o">>,
     <<"r", "i", "d", "i", "c", "o", "l", "a">>,
     <<"i", "m", "b", "a", "r", "a", "z", "z", "a", "n", "t", "e">>,
     <<"s", "p", "a", "z", "z", "a", "t", "u", "r", "a">>,
     <<"t", "r", "a", "s", "h">>,
     <<"s", "c", "h", "i", "f", "o">>,
     <<"s", "c", "h", "i", "f", "o", "s", "o">>,
     <<"s", "c", "h", "i", "f", "o", "s", "a">>,
     <<"o", "r", "r", "e", "n", "d", "o">>,
     <<"o", "r", "r", "e", "n", "d", "a">>,
     <<"i", "n", "s", "o", "p", "p", "o", "r", "t", "a", "b", "i", "l", "e">>,
     <<"f", "l", "o", "p">>,
     <<"f", "a", "l", "l", "i", "m", "e", "n", "t", "o">>,
     <<"i", "n", "c", "a", "p", "a", "c", "e">>,
     <<"s", "c", "i", "a", "l", "b", "o">>,
     <<"s", "c", "i", "a", "l", "b", "a">>,
     <<"s", "p", "e", "n", "t", "o">>,
     <<"s", "p", "e", "n", "t", "a">>,
     <<"p", "i", "a", "t", "t", "o">>,
     <<"p", "i", "a", "t", "t", "a">>,
     <<"v", "u", "o", "t", "o">>,
     <<"v", "u", "o", "t", "a">>,
     <<"f", "a", "l", "s", "o">>,
     <<"f", "a", "l", "s", "a">>,
     <<"c", "o", "p", "i", "a", "t", "o">>,
     <<"c", "o", "p", "i", "a", "t", "a">>,
     <<"a", "n", "t", "i", "p", "a", "t", "i", "c", "o">>,
     <<"a", "n", "t", "i", "p", "a", "t", "i", "c", "a">>,
     <<"s", "t", "o", "n", "a", "t", "o">>,
     <<"s", "t", "o", "n", "a", "t", "a">>,
     <<"p", "e", "s", "s", "i", "m", "a", "m", "e", "n", "t", "e">>}

\* \w of the pattern at line 191, on lower-cased text.
WordChars == SeqRange(LowerCase) \cup SeqRange(UpperCase) \cup DigitChars \cup {"_"}

\* re.findall(r"\b\w+\b", text): the maximal runs of word characters.
RECURSIVE TokensFrom(_, _, _)
TokensFrom(str, cur, acc) ==
    IF str = <<>> THEN (IF cur = <<>> THEN acc ELSE Append(acc, cur))
    ELSE IF Head(str) \notin WordChars
    THEN TokensFrom(Tail(str), <<>>, IF cur = <<>> THEN acc ELSE Append(acc, cur))
    ELSE TokensFrom(Tail(str), Append(cur, Head(str)), acc)

Tokens(text) == TokensFrom(Lower(text), <<>>, <<>>)

\* The counting loops of _compute_sentiment, lines 189-195.
RECURSIVE CountWords(_, _)
CountWords(words, lexicon) ==
    IF words = <<>> THEN 0
    ELSE (IF Head(words) \in lexicon THEN 1 ELSE 0) + CountWords(Tail(words), lexicon)

\* The outer loop over the texts; the list is summed by halves, which keeps
\* the evaluation shallow on a list of thousands of texts.
RECURSIVE CountInTexts(_, _)
CountInTexts(texts, lexicon) ==
    IF texts = <<>> THEN 0
    ELSE IF Len(texts) = 1 THEN CountWords(Tokens(texts[1]), lexicon)
    ELSE LET h == Len(texts) \div 2
         IN  CountInTexts(SubSeq(texts, 1, h), lexicon)
                 + CountInTexts(SubSeq(texts, h + 1, Len(texts)), lexicon)

\* Mutant: the quotient is cut after the third decimal.
Round3Truncates(num, den) ==
    LET n == IF num < 0 THEN 0 - num ELSE num
        q == (1000 * n) \div den
    IN  IF num < 0 THEN 0 - q ELSE q

\* round(num / den, 3) in thousandths, den > 0: the nearest multiple of
\* 0.001, a tie going to the even one.
Round3(num, den) ==
    LET n    == IF num < 0 THEN 0 - num ELSE num
        q    == (1000 * n) \div den
        r2   == 2 * ((1000 * n) % den)
        up   == r2 > den \/ (r2 = den /\ q % 2 = 1)
        mag  == IF up THEN q + 1 ELSE q
    IN  IF num < 0 THEN 0 - mag ELSE mag

\* _compute_sentiment, lines 187-197; the score is in thousandths.  A word
\* of both lexicons would count as positive (the sets are disjoint).
ComputeSentiment(texts) ==
    LET pos   == CountInTexts(texts, POSITIVE_WORDS)
        neg   == CountInTexts(texts, NEGATIVE_WORDS \ POSITIVE_WORDS)
        total == pos + neg
    IN  IF total # 0 THEN Round3(pos - neg, total) ELSE 0

\* Mutant: every score that is not negative is labelled positive.
SentimentLabelFromZero(score) ==
    IF score >= 0 THEN "positivo"
    ELSE IF score < -100 THEN "negativo"
    ELSE "neutro"

\* _sentiment_label, lines 200-205, on thousandths.
SentimentLabel(score) ==
    IF score > 100 THEN "positivo"
    ELSE IF score < -100 THEN "negativo"
    ELSE "neutro"

\* Mutant: a comment is placed before the comments of equal score that
\* came earlier in the corpus.
RECURSIVE InsertBeforeEqualScore(_, _)
InsertBeforeEqualScore(sorted, c) ==
    IF sorted = <<>> THEN <<c>>
    ELSE IF Head(sorted).score > c.score
    THEN <<Head(sorted)>> \o InsertBeforeEqualScore(Tail(sorted), c)
    ELSE <<c>> \o sorted

\* sorted(matching, key=score, reverse=True): stable, descending.
RECURSIVE InsertByScore(_, _)
InsertByScore(sorted, c) ==
    IF sorted = <<>> THEN <<c>>
    ELSE IF Head(sorted).score >= c.score
    THEN <<Head(sorted)>> \o InsertByScore(Tail(sorted), c)
    ELSE <<c>> \o sorted

RECURSIVE SortedByScoreDesc(_)
SortedByScoreDesc(cs) ==
    IF cs = <<>> THEN <<>>
    ELSE InsertByScore(SortedByScoreDesc(SubSeq(cs, 1, Len(cs) - 1)), cs[Len(cs)])

\* " || ".join(bodies)
RECURSIVE Join(_)
Join(strs) ==
    IF strs = <<>> THEN <<>>
    ELSE IF Len(strs) = 1 THEN strs[1]
    ELSE strs[1] \o <<" ", "|", "|", " ">> \o Join(Tail(strs))

RECURSIVE SumScores(_)
SumScores(cs) == IF cs = <<>> THEN 0 ELSE Head(cs).score + SumScores(Tail(cs))

\* Mutant: the total is taken over the whole corpus, not over the matches.
MetricsForArtistSumsAll(name, cs) ==
    LET matching == SelectSeq(cs, LAMBDA c : ArtistInText(name, c.body))
        texts    == [i \in DOMAIN matching |-> matching[i].body]
        score    == ComputeSentiment(texts)
        sorted   == SortedByScoreDesc(matching)
        top3     == SubSeq(sorted, 1, Min(3, Len(sorted)))
    IN  [mentions     |-> Len(matching),
         total_score  |-> SumScores(cs),
         score        |-> score,
         label        |-> SentimentLabel(score),
         top_comments |-> Join([i \in DOMAIN top3 |-> top3[i].body])]

\* _metrics_for_artist, lines 224-250.
MetricsForArtist(name, cs) ==
    LET matching == SelectSeq(cs, LAMBDA c : ArtistInText(name, c.body))
        texts    == [i \in DOMAIN matching |-> matching[i].body]
        score    == ComputeSentiment(texts)
        sorted   == SortedByScoreDesc(matching)
        top3     == SubSeq(sorted, 1, Min(3, Len(sorted)))
    IN  [mentions     |-> Len(matching),
         total_score  |-> SumScores(matching),
         score        |-> score,
         label        |-> SentimentLabel(score),
         top_comments |-> Join([i \in DOMAIN top3 |-> top3[i].body])]

(***************************************************************************)
(* The inputs the aggregation is run on.                                   *)
(***************************************************************************)
TextBravoMahmood ==
    <<"B", "r", "a", "v", "o", " ", "M", "a", "h", "m", "o", "o", "d">>

TextMahmoodSchifo ==
    <<"M", "a", "h", "m", "o", "o", "d", " ", "c", "h", "e", " ", "s", "c", "h", "i", "f", "o">>

TextMahmoodTop ==
    <<"M", "A", "H", "M", "O", "O", "D", " ", "t", "o", "p", "!">>

TextElodie ==
    <<"e", "l", "o", "d", "i", "e", " ", "b", "r", "a", "v", "a", ",", " ", "b", "e", "l", "l", "a">>

TextVinci ==
    <<"V", "i", "n", "c", "i", " ", "o", " ", "n", "o", ",", " ", "i", "n", "s", "a", "l", "a", "t", "a">>

TextCiao ==
    <<"c", "i", "a", "o">>

ArtistMahmood ==
    <<"M", "a", "h", "m", "o", "o", "d">>

ArtistElodie ==
    <<"E", "L", "O", "D", "I", "E">>

ArtistSalDaVinci ==
    <<"S", "a", "l", " ", "D", "a", " ", "V", "i", "n", "c", "i">>

ArtistLda ==
    <<"L", "D", "A", " ", "e", " ", "A", "k", "a", " ", "7", "e", "v", "e", "n">>

Artists == {ArtistMahmood, ArtistElodie, ArtistSalDaVinci, ArtistLda}

CommentPool ==
    {[body |-> TextBravoMahmood, score |-> 5],
     [body |-> TextMahmoodSchifo, score |-> 2],
     [body |-> TextMahmoodTop, score |-> 5],
     [body |-> TextElodie, score |-> -3],
     [body |-> TextVinci, score |-> 0],
     [body |-> TextCiao, score |-> 1]}

MetricsInit ==
    /\ PollIdle
    /\ ExtractIdle
    /\ PipelineIdle
    /\ RowsIdle
    /\ SentimentIdle
    /\ MatchIdle
    /\ fpc = "idle"
    /\ comments = <<>>
    /\ more_ids = <<>>
    /\ bi = 0
    /\ extra_more = <<>>
    /\ post = "unset"
    /\ lastCall = [events |-> <<>>, result |-> "None"]
    /\ requested = <<>>
    /\ extra_seen = {}
    /\ anyFailed = FALSE
    /\ mpc = "call"
    /\ artist \in Artists
    /\ all_comments \in SeqsUpTo(CommentPool, MaxCorpus)
    /\ metrics = NoMetrics

CallMetricsForArtist ==
    /\ mpc = "call"
    /\ metrics' = MetricsForArtist(artist, all_comments)
    /\ mpc' = "returned"
    /\ UNCHANGED <<artist, all_comments>>
    /\ UNCHANGED <<pvars, fvars, rvars, svars, avars, evars, wvars>>

MetricsNext == CallMetricsForArtist

SpecMetrics == MetricsInit /\ [][MetricsNext]_vars

MatchingEntries == {i \in DOMAIN all_comments : ArtistInText(artist, all_comments[i].body)}

RECURSIVE SumOver(_)
SumOver(idx) ==
    IF idx = {} THEN 0
    ELSE LET i == CHOOSE k \in idx : TRUE
         IN  all_comments[i].score + SumOver(idx \ {i})

(***************************************************************************)
(* C10: mentions is the number of corpus entries whose body matches the    *)
(* artist, total_score the sum of score over exactly those entries; both   *)
(* are 0 for an empty corpus and when nothing matches.                     *)
(***************************************************************************)
C10_MentionsAndTotalScore ==
    mpc = "returned"
        => LET m == MatchingEntries IN
           /\ metrics.mentions = Cardinality(m)
           /\ metrics.total_score = SumOver(m)
           /\ m = {} => (metrics.mentions = 0 /\ metrics.total_score = 0)

C10_Witness ==
    /\ mpc = "returned"
    /\ Cardinality(MatchingEntries) = 2
    /\ Len(all_comments) = 4
    /\ metrics.total_score = 7

\* The corpus positions of the matching comments that precede position i
\* in the order "higher score first, then earlier in the corpus".
Before(i) ==
    {j \in MatchingEntries :
        \/ all_comments[j].score > all_comments[i].score
        \/ all_comments[j].score = all_comments[i].score /\ j < i}

\* The corpus position of the matching comment that has r others before it.
Ranked(r) == CHOOSE i \in MatchingEntries : Cardinality(Before(i)) = r

(***************************************************************************)
(* C11: top_comments joins the bodies of the at most 3 matching comments   *)
(* with the highest scores, in descending score order; comments of equal   *)
(* score stay in corpus order, and when such a tie straddles the cut at    *)
(* position 3 the earlier comment is the one kept.                         *)
(***************************************************************************)
C11_TopCommentsStableByScore ==
    mpc = "returned"
        => LET n == Min(3, Cardinality(MatchingEntries)) IN
           metrics.top_comments
               = Join([r \in 1..n |-> all_comments[Ranked(r - 1)].body])

\* Four matching comments of one score with two different bodies: the
\* third and the fourth tie across the cut.
C11_Witness ==
    /\ mpc = "returned"
    /\ artist = ArtistMahmood
    /\ all_comments = <<[body |-> TextBravoMahmood, score |-> 5],
                        [body |-> TextMahmoodTop, score |-> 5],
                        [body |-> TextBravoMahmood, score |-> 5],
                        [body |-> TextMahmoodTop, score |-> 5]>>
    /\ metrics.top_comments
           = Join(<<TextBravoMahmood, TextMahmoodTop, TextBravoMahmood>>)

(***************************************************************************)
(*                  The rows of the CSV (fetch.fetch_data)                 *)
(***************************************************************************)
MaxContestants == 3
MaxThread == 2

\* CONTESTANTS is imported from contestants.py: a list of (artist, song)
\* pairs, one per act of the festival.
ContestantPool ==
    {<<ArtistMahmood, "brano1">>, <<ArtistElodie, "brano2">>,
     <<ArtistSalDaVinci, "brano3">>, <<ArtistLda, "brano4">>}

ContestantLists ==
    {q \in SeqsUpTo(ContestantPool, MaxContestants) :
        \A i \in DOMAIN q, j \in DOMAIN q : q[i] = q[j] => i = j}

\* The comments of the thread the rows are computed from.
ThreadPool ==
    {[body |-> TextBravoMahmood, score |-> 5],
     [body |-> TextElodie, score |-> -3],
     [body |-> TextVinci, score |-> 0]}

\* Lines 291-308: the row of one contestant.
Row(c, corpus) ==
    LET m == MetricsForArtist(c[1], corpus) IN
    [artista               |-> c[1],
     brano                 |-> c[2],
     reddit_mentions       |-> m.mentions,
     reddit_score          |-> m.total_score,
     reddit_total_comments |-> Len(corpus),
     sentiment_score       |-> m.score,
     sentiment_label       |-> m.label,
     top_comments          |-> m.top_comments]

\* The sort key of line 310 compared as Python compares tuples.
KeyGreater(a, b) ==
    \/ a.reddit_mentions > b.reddit_mentions
    \/ /\ a.reddit_mentions = b.reddit_mentions
       /\ a.reddit_score > b.reddit_score

\* Mutant: a row is placed before the rows of equal key that came earlier.
RECURSIVE InsertRowBeforeEqual(_, _)
InsertRowBeforeEqual(sorted, r) ==
    IF sorted = <<>> THEN <<r>>
    ELSE IF KeyGreater(Head(sorted), r)
    THEN <<Head(sorted)>> \o InsertRowBeforeEqual(Tail(sorted), r)
    ELSE <<r>> \o sorted

\* rows.sort(key=..., reverse=True), line 310: stable, descending.
RECURSIVE InsertRow(_, _)
InsertRow(sorted, r) ==
    IF sorted = <<>> THEN <<r>>
    ELSE IF ~KeyGreater(r, Head(sorted))
    THEN <<Head(sorted)>> \o InsertRow(Tail(sorted), r)
    ELSE <<r>> \o sorted

RECURSIVE SortRows(_)
SortRows(rs) ==
    IF rs = <<>> THEN <<>>
    ELSE InsertRow(SortRows(SubSeq(rs, 1, Len(rs) - 1)), rs[Len(rs)])

\* Lines 289-308: one iteration of the loop over CONTESTANTS.
AppendRow ==
    /\ rpc = "rows"
    /\ ri < Len(contestants)
    /\ rows' = Append(rows, Row(contestants[ri + 1], all_comments))
    /\ ri' = ri + 1
    /\ UNCHANGED <<rpc, contestants, csv>>
    /\ UNCHANGED <<pvars, fvars, mvars, svars, avars, evars, wvars>>

\* Lines 310-324: the sort, then the file is written; open() may raise.
SortAndWriteRows ==
    /\ rpc = "rows"
    /\ ri = Len(contestants)
    /\ rows' = SortRows(rows)
    /\ \E opened \in BOOLEAN :
          IF opened
          THEN rpc' = "done" /\ csv' = rows'
          ELSE rpc' = "raised" /\ UNCHANGED csv
    /\ UNCHANGED <<contestants, ri>>
    /\ UNCHANGED <<pvars, fvars, mvars, svars, avars, evars, wvars>>

RowsInit ==
    /\ PollIdle
    /\ ExtractIdle
    /\ PipelineIdle
    /\ FetchIdle
    /\ SentimentIdle
    /\ MatchIdle
    /\ mpc = "idle"
    /\ artist = <<>>
    /\ metrics = NoMetrics
    /\ all_comments \in SeqsUpTo(ThreadPool, MaxThread)
    /\ rpc = "rows"
    /\ contestants \in ContestantLists
    /\ ri = 0
    /\ rows = <<>>
    /\ csv = "unset"

RowsNext ==
    \/ AppendRow
    \/ SortAndWriteRows

SpecRows == RowsInit /\ [][RowsNext]_vars

\* The position in CONTESTANTS of the contestant a row is about.
ContestantOf(r) == CHOOSE k \in DOMAIN contestants : contestants[k][1] = r.artista

(***************************************************************************)
(* C12: the rows fetch_data writes are exactly one per contestant, ordered *)
(* by (reddit_mentions, reddit_score) descending, compared                 *)
(* lexicographically; rows with equal mentions and equal score keep the    *)
(* order of CONTESTANTS.                                                   *)
(***************************************************************************)
C12_RowsSortedOnePerContestant ==
    rpc = "done"
        => /\ Len(csv) = Len(contestants)
           /\ \A k \in DOMAIN contestants :
                 /\ Cardinality({j \in DOMAIN csv :
                                    csv[j].artista = contestants[k][1]}) = 1
                 /\ \E j \in DOMAIN csv : csv[j] = Row(contestants[k], all_comments)
           /\ \A j \in 1..(Len(csv) - 1) :
                 \/ KeyGreater(csv[j], csv[j + 1])
                 \/ /\ csv[j].reddit_mentions = csv[j + 1].reddit_mentions
                    /\ csv[j].reddit_score = csv[j + 1].reddit_score
                    /\ ContestantOf(csv[j]) < ContestantOf(csv[j + 1])

\* The last contestant has the most mentions and the lowest score and is
\* written first; the two without mentions tie and keep their order.
C12_Witness ==
    /\ rpc = "done"
    /\ contestants = <<<<ArtistLda, "brano4">>, <<ArtistSalDaVinci, "brano3">>,
                       <<ArtistElodie, "brano2">>>>
    /\ csv[1].artista = ArtistElodie /\ csv[1].reddit_mentions = 2
    /\ csv[1].reddit_score = -6
    /\ csv[2].artista = ArtistLda /\ csv[2].reddit_score = 0
    /\ csv[3].artista = ArtistSalDaVinci /\ csv[3].reddit_mentions = 0

(***************************************************************************)
(*        The sentiment functions on their own (fetch.py, 187-205)         *)
(***************************************************************************)
MaxTexts == 3
ManyTexts == 4000

TextBravoBravo ==
    <<"B", "r", "a", "v", "o", ",", " ", "B", "R", "A", "V", "O", "!">>

TextCheSchifo ==
    <<"c", "h", "e", " ", "s", "c", "h", "i", "f", "o">>

TextTopNoiosoBrutto ==
    <<"t", "o", "p", " ", "m", "a", " ", "n", "o", "i", "o", "s", "o", ",", " ", "b", "r", "u", "t", "t", "o">>

TextNonTop ==
    <<"n", "o", "n", "_", "t", "o", "p", " ", "b", "r", "a", "v", "i", "s", "s", "i", "m", "o">>

TextTop ==
    <<"t", "o", "p">>

SentimentTexts ==
    {<<>>, TextBravoBravo, TextCheSchifo, TextTopNoiosoBrutto, TextNonTop, TextCiao}

\* Two long lists: ManyTexts texts of one positive word and one text with a
\* negative word, and the other way round.
LongTexts ==
    {[i \in 1..ManyTexts |-> TextTop] \o <<TextCheSchifo>>,
     [i \in 1..ManyTexts |-> TextCheSchifo] \o <<TextTop>>}

SentimentInit ==
    /\ PollIdle
    /\ ExtractIdle
    /\ PipelineIdle
    /\ FetchIdle
    /\ MetricsIdle
    /\ RowsIdle
    /\ MatchIdle
    /\ spc = "call"
    /\ sent_texts \in SeqsUpTo(SentimentTexts, MaxTexts) \cup LongTexts
    /\ sent_score = 0
    /\ sent_lbl = ""

CallComputeSentiment ==
    /\ spc = "call"
    /\ sent_score' = ComputeSentiment(sent_texts)
    /\ spc' = "scored"
    /\ UNCHANGED <<sent_texts, sent_lbl>>
    /\ UNCHANGED <<pvars, fvars, mvars, rvars, avars, evars, wvars>>

CallSentimentLabel ==
    /\ spc = "scored"
    /\ sent_lbl' = SentimentLabel(sent_score)
    /\ spc' = "returned"
    /\ UNCHANGED <<sent_texts, sent_score>>
    /\ UNCHANGED <<pvars, fvars, mvars, rvars, avars, evars, wvars>>

SentimentNext ==
    \/ CallComputeSentiment
    \/ CallSentimentLabel

SpecSentiment == SentimentInit /\ [][SentimentNext]_vars

\* The tokens of the texts that belong to a lexicon, by position.
LexiconTokens(lexicon) ==
    UNION {LET tk == Tokens(sent_texts[i])
           IN  {<<i, j>> : j \in {k \in DOMAIN tk : tk[k] \in lexicon}} :
           i \in DOMAIN sent_texts}

PosCount == Cardinality(LexiconTokens(POSITIVE_WORDS))

NegCount == Cardinality(LexiconTokens(NEGATIVE_WORDS))

(***************************************************************************)
(* C13: when the texts hold as many positive-lexicon tokens as negative    *)
(* ones (none of either, the empty list included, or the same positive     *)
(* number of both), _compute_sentiment returns 0.0 and _sentiment_label of *)
(* that score is the neutral label.                                        *)
(***************************************************************************)
C13_BalancedTextsAreNeutral ==
    (spc = "returned" /\ PosCount = NegCount)
        => (sent_score = 0 /\ sent_lbl = "neutro")

\* Two positive and two negative tokens, spread over three texts.
C13_Witness ==
    /\ spc = "returned"
    /\ PosCount = 2 /\ NegCount = 2
    /\ Len(sent_texts) = 3
    /\ sent_score = 0 /\ sent_lbl = "neutro"

Abs(x) == IF x < 0 THEN 0 - x ELSE x

\* score, in thousandths, is a multiple of 0.001 nearest to num / den.
NearestThousandth(score, num, den) == 2 * Abs(1000 * num - score * den) <= den

\* The part of C14 that does not concern the extremes.
ScoreInRangeAndRounded(pos, neg) ==
    /\ sent_score \in -1000..1000
    /\ Abs(pos - neg) <= pos + neg
    /\ pos + neg > 0 => NearestThousandth(sent_score, pos - neg, pos + neg)
    /\ pos + neg = 0 => sent_score = 0

(***************************************************************************)
(* C14 (as stated): the score lies in [-1.0, 1.0] and is a multiple of     *)
(* 0.001; with pos and neg the token counts, |pos - neg| <= pos + neg and  *)
(* the score is (pos - neg)/(pos + neg) rounded to 3 decimals; it is +1    *)
(* only when neg = 0 < pos and -1 only when pos = 0 < neg.                 *)
(***************************************************************************)
C14_ExtremesOnlyWhenOneSided ==
    spc \in {"scored", "returned"}
        => LET pos == PosCount
               neg == NegCount
           IN  /\ ScoreInRangeAndRounded(pos, neg)
               /\ sent_score = 1000 => (neg = 0 /\ pos > 0)
               /\ sent_score = -1000 => (pos = 0 /\ neg > 0)

(***************************************************************************)
(* C14 (amended): the score lies in [-1.0, 1.0] and is a multiple of       *)
(* 0.001; |pos - neg| <= pos + neg and the score is (pos - neg)/(pos +     *)
(* neg) rounded to 3 decimals; it is +1 only when pos > 0 and              *)
(* pos >= 3999 * neg, and -1 only when neg > 0 and neg >= 3999 * pos: the  *)
(* rounding alone reaches an extreme once one lexicon outnumbers the other *)
(* 3999 to 1.                                                              *)
(***************************************************************************)
C14_ExtremesWithinHalfThousandth ==
    spc \in {"scored", "returned"}
        => LET pos == PosCount
               neg == NegCount
           IN  /\ ScoreInRangeAndRounded(pos, neg)
               /\ sent_score = 1000 => (pos > 0 /\ pos >= 3999 * neg)
               /\ sent_score = -1000 => (neg > 0 /\ neg >= 3999 * pos)

\* A score of -1.0 although one token is positive.
C14_Witness ==
    /\ spc = "scored"
    /\ sent_score = -1000
    /\ PosCount = 1
    /\ NegCount >= 3999

(***************************************************************************)
(*            The artist matcher on its own (fetch.py, 209-220)            *)
(***************************************************************************)
ArtistIlTre ==
    <<"I", "l", " ", "T", "r", "e">>

ArtistRossi ==
    <<"R", "o", "s", "s", "i">>

TextForzaIlTre ==
    <<"F", "o", "r", "z", "a", " ", "I", "L", " ", "T", "R", "E", "!">>

TextIlNuovoTre ==
    <<"i", "l", " ", "n", "u", "o", "v", "o", " ", "t", "r", "e">>

TextAkaLda ==
    <<"a", "k", "a", " ", "l", "d", "a", " ", "e", " ", "b", "a", "s", "t", "a">>

TextAlbum7even ==
    <<"L", "'", "a", "l", "b", "u", "m", " ", "7", "E", "V", "E", "N">>

TextInsalataDa ==
    <<"I", "n", "s", "a", "l", "a", "t", "a", " ", "d", "a", " ", "a", "s", "p", "o", "r", "t", "o">>

TextRossi ==
    <<"v", "a", "s", "c", "o", " ", "r", "o", "ß", "i">>

MatchArtists ==
    {<<>>, ArtistMahmood, ArtistElodie, ArtistSalDaVinci, ArtistLda, ArtistIlTre,
     ArtistRossi}

MatchTexts ==
    {<<>>, TextBravoMahmood, TextMahmoodTop, TextElodie, TextVinci, TextCiao,
     TextForzaIlTre, TextIlNuovoTre, TextAkaLda, TextAlbum7even, TextInsalataDa,
     TextRossi}

MatchInit ==
    /\ PollIdle
    /\ ExtractIdle
    /\ PipelineIdle
    /\ FetchIdle
    /\ MetricsIdle
    /\ RowsIdle
    /\ SentimentIdle
    /\ apc = "call"
    /\ match_artist \in MatchArtists
    /\ match_text \in MatchTexts
    /\ match_result = FALSE

CallArtistInText ==
    /\ apc = "call"
    /\ match_result' = ArtistInText(match_artist, match_text)
    /\ apc' = "returned"
    /\ UNCHANGED <<match_artist, match_text>>
    /\ UNCHANGED <<pvars, fvars, mvars, rvars, svars, evars, wvars>>

MatchNext == CallArtistInText

SpecMatch == MatchInit /\ [][MatchNext]_vars

\* str.upper() and str.swapcase() on the characters of the model: a letter
\* goes to its counterpart, the sharp s goes to two capital letters.
UpperMap ==
    [c \in {LowerCase[i] : i \in DOMAIN LowerCase} |->
        UpperCase[CHOOSE i \in DOMAIN LowerCase : LowerCase[i] = c]]

UpperOf(c) ==
    IF c \in DOMAIN UpperMap THEN <<UpperMap[c]>>
    ELSE IF c = "ß" THEN <<"S", "S">>
    ELSE <<c>>

SwapOf(c) == IF c \in DOMAIN LowerMap THEN <<LowerMap[c]>> ELSE UpperOf(c)

RECURSIVE Flat(_)
Flat(ss) == IF ss = <<>> THEN <<>> ELSE Head(ss) \o Flat(Tail(ss))

Upper(str) == Flat([i \in DOMAIN str |-> UpperOf(str[i])])

SwapCase(str) == Flat([i \in DOMAIN str |-> SwapOf(str[i])])

\* A string with its letter case changed: everywhere, or at one position.
CaseVariants(str) ==
    {str, Lower(str), Upper(str), SwapCase(str)}
    \cup {SubSeq(str, 1, k - 1) \o SwapOf(str[k]) \o SubSeq(str, k + 1, Len(str)) :
            k \in DOMAIN str}

(***************************************************************************)
(* C15 (as stated): _artist_in_text is case-insensitive in both arguments; *)
(* changing the letter case of the name, of the text, or of both never     *)
(* changes the result.                                                     *)
(***************************************************************************)
C15_CaseInsensitiveInBothArguments ==
    apc = "returned"
        => \A n \in CaseVariants(match_artist), t \in CaseVariants(match_text) :
              ArtistInText(n, t) = match_result

\* The lower-cased arguments, read position by position.
LowName == Lower(match_artist)

LowText == Lower(match_text)

\* The characters i..j of the lower-cased name occur in the lower-cased text.
OccursInText(i, j) ==
    \E k \in 0..(Len(LowText) - (j - i + 1)) :
        \A o \in 0..(j - i) : LowText[k + 1 + o] = LowName[i + o]

\* The characters i..j of the name are one whitespace-delimited part of it.
IsPart(i, j) ==
    /\ i <= j
    /\ \A k \in i..j : LowName[k] \notin WhitespaceChars
    /\ i = 1 \/ LowName[i - 1] \in WhitespaceChars
    /\ j = Len(LowName) \/ LowName[j + 1] \in WhitespaceChars

PartFound(minLen, maxLen) ==
    \E i \in DOMAIN LowName, j \in DOMAIN LowName :
        /\ IsPart(i, j)
        /\ j - i + 1 \in minLen..maxLen
        /\ OccursInText(i, j)

(***************************************************************************)
(* C19: _artist_in_text(artist, text) is true exactly when the text is not *)
(* empty and, after lower-casing both, the whole name is a substring of    *)
(* the text or some whitespace-delimited part of the name of at least 4    *)
(* characters is; a part of 3 characters or fewer never produces a match   *)
(* on its own.                                                             *)
(***************************************************************************)
C19_WholeNameOrLongPart ==
    apc = "returned"
        => match_result
              = /\ match_text # <<>>
                /\ \/ OccursInText(1, Len(LowName))
                   \/ PartFound(4, Len(LowName))

\* Three short parts of the name are in the text, the long part and the
\* whole name are not: no match.
C19_Witness ==
    /\ apc = "returned"
    /\ match_artist = ArtistLda
    /\ match_text = TextAkaLda
    /\ PartFound(1, 3)
    /\ ~match_result

\* The calls of the compensating delete: the git rm and what follows it.
DeleteCalls == SubSeq(calls, Len(ForwardCalls) + 1, Len(calls))

DeleteFailed ==
    /\ DeleteCalls # <<>>
    /\ DeleteCalls[Len(DeleteCalls)].res = "fail"

\* The failure record of a request of the forward path that did not succeed.
FailureOf(c) ==
    CASE c.op = "post_source" -> Fail("source", c.res)
      [] c.op = "post_report" -> Fail("report", c.res)
      [] c.op = "write_report_id"
            -> Fail("write_id", IF c.res = "type_error" THEN "type" ELSE "io")
      [] OTHER -> NoFailure

(***************************************************************************)
(* C16: the compensating delete is best-effort and non-fatal: when a git   *)
(* command of delete_file_from_repo fails, no exception leaves the         *)
(* function (the run still ends on the failure that brought it to the      *)
(* handler), the delete is attempted once (one git rm, nothing after the   *)
(* failed command), and the pipeline ends with exit status 1.              *)
(***************************************************************************)
C16_DeleteFailureIsNotFatal ==
    DeleteFailed
        => LET fw == ForwardCalls
               dl == DeleteCalls
           IN  /\ pc = "failed"
               /\ exitStatus = 1
               /\ fw # <<>>
               /\ failure # NoFailure
               /\ failure = FailureOf(fw[Len(fw)])
               /\ Len(dl) <= 3
               /\ dl = SubSeq(GitRun(<<"git_rm", "git_commit", "git_push">>, Len(dl)),
                              1, Len(dl))

\* All report attempts failed, then the commit of the delete fails.
C16_Witness ==
    /\ pc = "failed"
    /\ exitStatus = 1
    /\ failure.stage = "report"
    /\ Len(DeleteCalls) = 2
    /\ calls[Len(calls)] = Call("git_commit", "fail", 0)

(***************************************************************************)
(*       The node walker on its own (fetch._extract_comment_nodes)         *)
(***************************************************************************)
MaxChildren == 2

\* What may hang below a comment: nothing, an available reply, a 'more'
\* placeholder, or an unavailable reply with a reply and a placeholder of
\* its own.
RepliesPool ==
    {<<>>,
     <<Cm("B", 1, <<>>)>>,
     <<More(<<7, 8>>)>>,
     <<Cm("[deleted]", 0, <<Cm("C", 2, <<>>), More(<<9>>)>>)>>}

\* A node of another kind (a post, say): the walker passes over it.
OtherNode ==
    [kind |-> "t3", body |-> "P", score |-> 4, replies |-> <<Cm("Q", 1, <<>>)>>,
     children |-> <<5>>]

NodePool ==
    {Cm(b, 3, r) : b \in {"A", "", "[deleted]", "[removed]"}, r \in RepliesPool}
    \cup {More(<<1>>), More(<<>>), OtherNode}

ExtractInit ==
    /\ PollIdle
    /\ PipelineIdle
    /\ FetchIdle
    /\ MetricsIdle
    /\ RowsIdle
    /\ SentimentIdle
    /\ MatchIdle
    /\ epc = "call"
    /\ ex_children \in SeqsUpTo(NodePool, MaxChildren)
    /\ ex_comments = <<>>
    /\ ex_more_ids = <<>>

CallExtractCommentNodes ==
    /\ epc = "call"
    /\ LET ex == ExtractCommentNodes(ex_children, ex_comments, ex_more_ids) IN
       /\ ex_comments' = ex.comments
       /\ ex_more_ids' = ex.more_ids
    /\ epc' = "returned"
    /\ UNCHANGED ex_children
    /\ UNCHANGED <<pvars, fvars, mvars, rvars, svars, avars, wvars>>

ExtractNext == CallExtractCommentNodes

SpecExtract == ExtractInit /\ [][ExtractNext]_vars

\* Every node of a tree that hangs below comments only, a node before its
\* replies and before its later siblings.
RECURSIVE NodesBelow(_)
NodesBelow(nodes) ==
    IF nodes = <<>> THEN <<>>
    ELSE <<Head(nodes)>>
            \o (IF Head(nodes).kind = "t1" THEN NodesBelow(Head(nodes).replies)
                ELSE <<>>)
            \o NodesBelow(Tail(nodes))

AvailableComments(nodes) ==
    LET av == SelectSeq(nodes, LAMBDA n : n.kind = "t1" /\ CommentAvailable(n.body))
    IN  [i \in DOMAIN av |-> [body |-> av[i].body, score |-> av[i].score]]

RECURSIVE MoreIdsOf(_)
MoreIdsOf(nodes) ==
    IF nodes = <<>> THEN <<>>
    ELSE (IF Head(nodes).kind = "more" THEN Head(nodes).children ELSE <<>>)
            \o MoreIdsOf(Tail(nodes))

(***************************************************************************)
(* C17: a comment node whose body is empty, '[deleted]' or '[removed]' is  *)
(* never added to the corpus, but its replies are still walked: every      *)
(* available reply below an unavailable comment and every 'more' id below  *)
(* it is collected.                                                        *)
(***************************************************************************)
C17_UnavailableSkippedRepliesWalked ==
    epc = "returned"
        => LET all == NodesBelow(ex_children) IN
           /\ \A i \in DOMAIN ex_comments :
                 ex_comments[i].body \notin {"", "[deleted]", "[removed]"}
           /\ ex_comments = AvailableComments(all)
           /\ ex_more_ids = MoreIdsOf(all)

\* A removed comment whose reply is deleted in turn: the reply below both
\* and the placeholder below both are collected, the two comments are not.
C17_Witness ==
    /\ epc = "returned"
    /\ ex_children
          = <<Cm("[removed]", 3,
                 <<Cm("[deleted]", 0, <<Cm("C", 2, <<>>), More(<<9>>)>>)>>)>>
    /\ ex_comments = <<[body |-> "C", score |-> 2]>>
    /\ ex_more_ids = <<9>>

ReportAttemptInOrder(i) ==
    LET c == calls[i]
        n == Len(calls)
    IN  /\ c.arg \in 1..3
        /\ c.arg = 1 => calls[i - 1] = Call("post_source", "ok", 0)
        /\ c.arg > 1
              => /\ calls[i - 1].op = "sleep"
                 /\ calls[i - 2].op = "post_report"
                 /\ calls[i - 2].res # "ok"
                 /\ calls[i - 2].arg = c.arg - 1
        /\ c.res = "ok"
              => (i < n => calls[i + 1].op = "write_report_id")
        /\ (c.res # "ok" /\ c.arg < 3)
              => /\ i < n
                 /\ calls[i + 1] = Call("sleep", "", IF c.arg = 1 THEN 2 ELSE 4)
                 /\ i + 1 < n => calls[i + 2].op = "post_report"
        /\ (c.res # "ok" /\ c.arg = 3)
              => /\ pc \in {"compensate", "failed"}
                 /\ failure = Fail("report", c.res)
                 /\ i < n => calls[i + 1].op = "git_rm"

(***************************************************************************)
(* C20: create_report is attempted at most 3 times and not again after a   *)
(* success; a failed first attempt is followed by a wait of 2 seconds and  *)
(* a failed second one by a wait of 4, then by the next attempt; no wait   *)
(* follows the third attempt, after whose failure the run is on the        *)
(* failure path; create_data_source is called once, before the first       *)
(* attempt, however many attempts follow.                                  *)
(***************************************************************************)
C20_ReportRetriedWithBackoff ==
    /\ \A i \in DOMAIN calls : calls[i].op = "post_report" => ReportAttemptInOrder(i)
    /\ CountCalls("post_report") <= 3
    /\ CountCalls("post_source") <= 1

\* Three failed attempts with the waits 2 and 4 between them; the run
\* ended on the failure path.
C20_Witness ==
    /\ pc = "failed"
    /\ failure.stage = "report"
    /\ CountCalls("post_report") = 3
    /\ CountCalls("post_source") = 1
    /\ SelectSeq(calls, LAMBDA c : c.op = "sleep" /\ c.arg # Delay)
          = <<Call("sleep", "", 2), Call("sleep", "", 4)>>

\* What the log holds right after the raw-URL request at position i.
RawAttemptInOrder(i) ==
    LET c == calls[i]
        n == Len(calls)
    IN  /\ c.arg \in 1..20
        /\ c.arg = 1 => calls[i - 1] = Call("git_push", "ok", 0)
        /\ c.arg > 1
              => /\ calls[i - 1] = Call("sleep", "", 5)
                 /\ calls[i - 2] = Call("get_raw", "fail", c.arg - 1)
        /\ c.res = "200" => (i < n => calls[i + 1].op = "post_source")
        /\ (c.res # "200" /\ c.arg < 20)
              => /\ i < n
                 /\ calls[i + 1] = Call("sleep", "", 5)
                 /\ i + 1 < n => calls[i + 2].op = "get_raw"
        /\ (c.res # "200" /\ c.arg = 20)
              => /\ i = n
                 /\ pc = "failed"
                 /\ exitStatus = 1
                 /\ failure = Fail("await", "exhausted")

\* The sleeps of wait_for_file_availability: those that follow a request
\* to the raw URL.
RawSleeps ==
    {i \in DOMAIN calls : calls[i].op = "sleep" /\ calls[i - 1].op = "get_raw"}

(***************************************************************************)
(* C21: wait_for_file_availability issues at most 20 requests; the first   *)
(* answer with status 200 ends it with True and no further request; it     *)
(* sleeps only between attempts, at most 19 times; after 20 answers that   *)
(* are not a 200 (another status or a request error) it raises; it never   *)
(* returns a false value, so create_data_source is only ever called right  *)
(* after a 200.                                                            *)
(***************************************************************************)
C21_WaitBoundedThenRaises ==
    /\ \A i \in DOMAIN calls : calls[i].op = "get_raw" => RawAttemptInOrder(i)
    /\ CountCalls("get_raw") <= 20
    /\ Cardinality(RawSleeps) <= 19
    /\ \A i \in DOMAIN calls :
          calls[i].op = "post_source" => calls[i - 1].op = "get_raw" /\ calls[i - 1].res = "200"

\* Twenty requests without a 200 and nineteen sleeps between them: the
\* function raised and the run ended without a data-source request.
C21_Witness ==
    /\ pc = "failed"
    /\ failure.stage = "await"
    /\ CountCalls("get_raw") = 20
    /\ Cardinality(RawSleeps) = 19
    /\ ~HasCall("post_source")

(***************************************************************************)
(*      The report poller (build_site.wait_for_report_completion)          *)
(***************************************************************************)
MaxWaitSeconds == 1800
PollInterval == 30
PollTimeout == 30

\* What a poll may answer: a 200 whose body carries one of the statuses
\* ("unknown": another status or none), another HTTP status, or an
\* exception (connection error, timeout, a body that is not JSON).
InProgress == {"queued", "processing", "running"}

PollAnswers == {"completed", "failed", "non200", "unknown", "error"} \cup InProgress

\* How long a request may take, up to its timeout.
RequestSeconds == {0, PollTimeout}

\* Mutant: the timeout is only looked at after the poll.
PollCheckNeverTimesOut ==
    /\ wpc = "check"
    /\ attempts' = attempts + 1
    /\ wpc' = "poll"
    /\ last_poll' = [last_poll EXCEPT !.elapsed = now - start_time]
    /\ UNCHANGED <<now, start_time, wresult, npolls>>
    /\ UNCHANGED <<pvars, fvars, mvars, rvars, svars, avars, evars>>

\* Lines 42-48: the top of the loop.
PollCheck ==
    /\ wpc = "check"
    /\ attempts' = attempts + 1
    /\ LET elapsed == now - start_time IN
       IF elapsed > MaxWaitSeconds
       THEN /\ wpc' = "returned"
            /\ wresult' = "False"
            /\ last_poll' = [answer |-> "timeout", elapsed |-> elapsed]
       ELSE /\ wpc' = "poll"
            /\ last_poll' = [last_poll EXCEPT !.elapsed = elapsed]
            /\ UNCHANGED wresult
    /\ UNCHANGED <<now, start_time, npolls>>
    /\ UNCHANGED <<pvars, fvars, mvars, rvars, svars, avars, evars>>

\* Lines 49-80: the request and what follows its answer.
Poll ==
    /\ wpc = "poll"
    /\ npolls' = npolls + 1
    /\ \E answer \in PollAnswers, took \in RequestSeconds :
          /\ last_poll' = [last_poll EXCEPT !.answer = answer]
          /\ IF answer = "completed"
             THEN /\ wresult' = "True"
                  /\ wpc' = "returned"
                  /\ now' = now + took
             ELSE IF answer \in {"failed", "non200"}
             THEN /\ wresult' = "False"
                  /\ wpc' = "returned"
                  /\ now' = now + took
             ELSE /\ now' = now + took + PollInterval
                  /\ wpc' = "check"
                  /\ UNCHANGED wresult
    /\ UNCHANGED <<start_time, attempts>>
    /\ UNCHANGED <<pvars, fvars, mvars, rvars, svars, avars, evars>>

PollInit ==
    /\ PipelineIdle
    /\ FetchIdle
    /\ MetricsIdle
    /\ RowsIdle
    /\ SentimentIdle
    /\ MatchIdle
    /\ ExtractIdle
    /\ wpc = "check"
    /\ now \in {0, 7}
    /\ start_time = now
    /\ attempts = 0
    /\ wresult = "none"
    /\ last_poll = NoPoll
    /\ npolls = 0

PollNext ==
    \/ PollCheck
    \/ Poll

SpecPoll == PollInit /\ [][PollNext]_vars

\* A request ends within its timeout and time.sleep returns: a step that
\* can be taken is taken.
SpecPollLive == SpecPoll /\ WF_vars(PollNext)

(***************************************************************************)
(* C22: wait_for_report_completion returns True only if a poll answered    *)
(* 200 with status 'completed'; it returns False on status 'failed', on a  *)
(* non-200 answer and on timeout; whatever in-progress, unknown or         *)
(* erroring answers the polls get, it ends once the elapsed time exceeds   *)
(* 1800 seconds (time advances by the sleep between polls), and no poll    *)
(* is issued after a timeout check found the time exceeded.                *)
(***************************************************************************)
C22_PollingEndsByAnswerOrTimeout ==
    /\ [](/\ (wresult = "True" => last_poll.answer = "completed")
          /\ (wpc = "returned" =>
                 (/\ last_poll.answer \in {"completed", "failed", "non200", "timeout"}
                  /\ (last_poll.answer # "completed" => wresult = "False")))
          /\ (last_poll.answer = "timeout" =>
                 (wpc = "returned" /\ last_poll.elapsed > 1800))
          /\ ((wpc = "poll" \/ (npolls > 0 /\ last_poll.answer # "timeout")) =>
                 last_poll.elapsed <= 1800)
          /\ now - start_time <= 1800 + 30 + 30)
    /\ [][(/\ ((wpc = "check" /\ now - start_time > 1800) =>
                  (wpc' = "returned" /\ wresult' = "False"))
           /\ ((npolls' # npolls) => (wpc = "poll" /\ now - start_time <= 1800))
           /\ ((wpc = "returned") => (npolls' = npolls)))]_vars
    /\ <>(wpc = "returned")

\* Sixty-one polls that all found the report in progress, the last one
\* checked at exactly 1800 seconds; the next check timed out.
C22_Witness ==
    /\ wpc = "returned"
    /\ wresult = "False"
    /\ last_poll.answer = "timeout"
    /\ npolls = 61
    /\ attempts = 62

\* create_report returned a report id in this run: a 201 answer whose 'id'
\* is not None.
ReportIdReturned ==
    /\ \E i \in DOMAIN calls : calls[i].op = "post_report" /\ calls[i].res = "ok"
    /\ report_id # "None"

\* report_id.txt holds the id: the write of lines 213-214 went through.
ReportIdWritten ==
    \E i \in DOMAIN calls : calls[i] = Call("write_report_id", "ok", 0)

\* What the log holds around the write of report_id.txt at position i.
ReportIdWriteInOrder(i) ==
    LET c == calls[i]
        n == Len(calls)
    IN  /\ i > 1
        /\ calls[i - 1].op = "post_report"
        /\ calls[i - 1].res = "ok"
        /\ (c.res = "ok")
              => (report_id # "None" /\ i = n /\ pc = "done" /\ exitStatus = 0)
        /\ (report_id = "None") => (c.res = "type_error")
        /\ (c.res # "ok")
              => (/\ pc \in {"compensate", "failed"}
                  /\ failure = FailureOf(c)
                  /\ (i < n => calls[i + 1].op = "git_rm"))

(***************************************************************************)
(* C23: report_id.txt is written if and only if create_report returned a   *)
(* report id in this run.  The write is attempted only right after a       *)
(* create_report that returned, and at most once; the id that is written   *)
(* is never None; a run on the failure path of an earlier stage has not    *)
(* touched the file; a write that went through is the last call of the     *)
(* run, which ends with status 0, so the published CSV is deleted after a  *)
(* write only when the write itself failed; and a finished run in which    *)
(* create_report returned an id has written it unless the write failed.    *)
(***************************************************************************)
C23_ReportIdWrittenIffReportCreated ==
    /\ \A i \in DOMAIN calls :
          calls[i].op = "write_report_id" => ReportIdWriteInOrder(i)
    /\ CountCalls("write_report_id") <= 1
    /\ ReportIdWritten => ReportIdReturned
    /\ (pc \in {"compensate", "failed"} /\ failure.stage # "write_id")
          => ~HasCall("write_report_id")
    /\ (HasCall("git_rm") /\ HasCall("write_report_id"))
          => (~ReportIdWritten /\ failure.stage = "write_id")
    /\ (entry = "pipeline" /\ pc \in {"done", "failed"} /\ ReportIdReturned)
          => (ReportIdWritten \/ failure.stage = "write_id")
    /\ (entry = "pipeline" /\ pc = "done") <=> ReportIdWritten

\* The third attempt of create_report returned an id, which was written;
\* the run is over and nothing was deleted.
C23_Witness ==
    /\ pc = "done"
    /\ ReportIdWritten
    /\ report_id = "r"
    /\ CountCalls("post_report") = 3
    /\ ~HasCall("git_rm")

\* A run for an event index that has no megathread URL: MEGATHREAD_URL is
\* not set and the validated index is one of 2 to 5.
NoUrlRun == urlEnv = "unset" /\ serata_num \in 2..5

(***************************************************************************)
(* C24: fetch_data for an event index without a megathread URL             *)
(* (MEGATHREAD_URL unset, index 2 to 5) exits with a non-zero status       *)
(* before any network call and without creating or overwriting the CSV:    *)
(* such a run makes no call at all, is never in PUBLISH or a later stage,  *)
(* and its only step after the validation is the exit with status 1.       *)
(***************************************************************************)
C24_NoUrlExitsBeforeAnyCall ==
    NoUrlRun
        => /\ pc \in {"fetch", "failed"}
           /\ calls = <<>>
           /\ ~ReportIdWritten
           /\ (pc = "failed" => (exitStatus = 1 /\ failure = Fail("fetch", "no_url")))
           /\ (pc = "fetch" => (ENABLED FetchData /\ exitStatus = -1))

\* The pipeline was started for the second event without MEGATHREAD_URL and
\* has exited.
C24_Witness ==
    /\ entry = "pipeline"
    /\ urlEnv = "unset"
    /\ serata_num = 2
    /\ pc = "failed"
    /\ exitStatus = 1
    /\ calls = <<>>

====
